---------------------------- MODULE Spec2Model ----------------------------
(***************************************************************************)
(* A model of the axenc front end: the lexer (peek / consume / saveState / *)
(* restoreState over a source string), the recursive-descent parser with   *)
(* its type registry, scope stack, class table and function list, the      *)
(* import resolver, the statement lowering of the IR builder, and the      *)
(* driver (main) that runs them and writes the module.                     *)
(***************************************************************************)
EXTENDS Integers, Sequences, FiniteSets, TLC

VARIABLES
  \* ---- lexer::Lexer (one instance) ----
  src,          \* Lexer::src_ (const)
  srcCursor,    \* Lexer::srcCursor_
  lookAhead,    \* Lexer::lookAhead_
  row,          \* Lexer::row_
  col,          \* Lexer::col_
  saved,        \* the LexerState a caller holds, or NoState
  lexAlive,     \* FALSE once the lexer has ended the process
  \* ---- what the caller of the lexer has seen ----
  pos,          \* index (from 0) of the next token to be consumed
  savedPos,     \* pos when saveState() was taken
  obs,          \* token index -> token returned between save and restore
  last,         \* the last call: [op, idx, tok]
  restored      \* restoreState() was called since the last saveState()

lexVars == <<src, srcCursor, lookAhead, row, col, saved, lexAlive,
             pos, savedPos, obs, last, restored>>

VARIABLES
  \* ---- parser::Parser (one compilation) ----
  files,        \* the file system: canonical path -> source text
  parser,       \* the Parser object (see "Parser state")
  stack,        \* the processImports() calls in progress: their savedLexer
                \* and savedFileName
  mode,         \* where the parser is: "off", "imports" (in the loop of
                \* processImports), "file" (in the loop of parseFile), "done"
  trace         \* what was parsed, in order: [e, file]

parserVars == <<files, parser, stack, mode, trace>>

VARIABLES
  \* ---- ast::FunctionNode::codeGen of one function ----
  function,     \* the FunctionNode that is lowered
  ctx,          \* the CodegenContext: blocks, insertion point, scopes
  cgpc,         \* "off", "create" (before codeGen), "body" (in the loop of
                \* generateFunctionBody), "end" (after the loop), "done"
  bodyIndex     \* index of the next statement of the body

cgVars == <<function, ctx, cgpc, bodyIndex>>

VARIABLES
  \* ---- main ----
  main          \* the driver: where it is, its arguments, what it has
                \* reported and written, its exit status (see "The driver")

mainVars == <<main>>

vars == <<lexVars, parserVars, cgVars, mainVars>>

-----------------------------------------------------------------------------
(* Bounds of the model.                                                    *)

\* largest offset handed to peek()
MaxPeek == 2
\* consume() calls followed per run
MaxTokens == 3
\* statements of a function body that is lowered
MaxBody == 2
\* data members declared in one opening of a class
MaxMembers == 2
\* operands of one expression
MaxOperands == 3
\* import statements that start the root file
MaxImports == 2
\* primary expressions of one expression of the precedence programs
MaxTerms == 4

-----------------------------------------------------------------------------
(* Notation.                                                               *)

\* With([x \in {e} |-> body]) is body with x naming the value of e, which is
\* computed once
With(binding) == binding[CHOOSE x \in DOMAIN binding : TRUE]

-----------------------------------------------------------------------------
(* Characters.                                                             *)

Digits == {"0", "1", "2", "3", "4", "5", "6", "7", "8", "9"}

Alpha == {"a", "b", "c", "d", "e", "f", "g", "h", "i", "j", "k", "l", "m",
          "n", "o", "p", "q", "r", "s", "t", "u", "v", "w", "x", "y", "z",
          "A", "B", "C", "D", "E", "F", "G", "H", "I", "J", "K", "L", "M",
          "N", "O", "P", "Q", "R", "S", "T", "U", "V", "W", "X", "Y", "Z"}

\* std::isspace in the "C" locale, restricted to the characters used
Spaces == {" ", "\n", "\t", "\r"}

\* lexer::symbolMap
symbolMap ==
  [c \in {"(", ")", "{", "}", "[", "]", ".", ",", "+", "-", "*", "/", "=",
          "<", ">", ";", "&", "$", "%"} |->
     CASE c = "(" -> "LParen"   [] c = ")" -> "RParen"
       [] c = "{" -> "LBrace"   [] c = "}" -> "RBrace"
       [] c = "[" -> "LBracket" [] c = "]" -> "RBracket"
       [] c = "." -> "Period"   [] c = "," -> "Comma"
       [] c = "+" -> "Plus"     [] c = "-" -> "Minus"
       [] c = "*" -> "Asterisk" [] c = "/" -> "Slash"
       [] c = "=" -> "Equals"   [] c = "<" -> "Less"
       [] c = ">" -> "Greater"  [] c = ";" -> "Semi"
       [] c = "&" -> "Ampersand" [] c = "$" -> "Dollar"
       [] c = "%" -> "Percent"]

\* lexer::keywordMap
keywordMap ==
  [k \in {"return", "break", "continue", "if", "else", "while", "ptr",
          "import", "class", "typedef"} |->
     CASE k = "return" -> "Return" [] k = "break" -> "Break"
       [] k = "continue" -> "Continue" [] k = "if" -> "If"
       [] k = "else" -> "Else" [] k = "while" -> "While"
       [] k = "ptr" -> "Ptr" [] k = "import" -> "Import"
       [] k = "class" -> "Class" [] k = "typedef" -> "Typedef"]

-----------------------------------------------------------------------------
(* Lexer: the scanner.  A scan position is [c, row, col]; c counts from 0. *)

\* Lexer::peekChar(offset) at scan position L; callers guard the range
peekChar(s, L, offset) == SubSeq(s, L.c + offset + 1, L.c + offset + 1)

\* Lexer::consumeChar: advances the cursor and the row / column
consumeChar(s, L) ==
  IF peekChar(s, L, 0) = "\n"
    THEN [c |-> L.c + 1, row |-> L.row + 1, col |-> 1]
    ELSE [c |-> L.c + 1, row |-> L.row, col |-> L.col + 1]

\* the loop of a line comment: up to (not including) the newline
RECURSIVE skipLineComment(_, _)
skipLineComment(s, L) ==
  IF L.c < Len(s) /\ peekChar(s, L, 0) # "\n"
    THEN skipLineComment(s, consumeChar(s, L))
    ELSE L

\* the loop of a block comment: it needs two characters to go on
RECURSIVE skipBlockComment(_, _)
skipBlockComment(s, L) ==
  IF L.c + 1 < Len(s)
    THEN IF peekChar(s, L, 0) = "*" /\ peekChar(s, L, 1) = "/"
           THEN consumeChar(s, consumeChar(s, L))
           ELSE skipBlockComment(s, consumeChar(s, L))
    ELSE L

\* a maximal run of characters of `set`: [text, L]
RECURSIVE scanWhile(_, _, _, _)
scanWhile(s, L, set, acc) ==
  IF L.c < Len(s) /\ peekChar(s, L, 0) \in set
    THEN scanWhile(s, consumeChar(s, L), set, acc \o peekChar(s, L, 0))
    ELSE [text |-> acc, L |-> L]

\* the body of a string literal up to the closing quote or the end
RECURSIVE scanString(_, _, _)
scanString(s, L, acc) ==
  IF L.c < Len(s) /\ peekChar(s, L, 0) # "\""
    THEN IF peekChar(s, L, 0) = "\\" /\ L.c + 1 < Len(s)
           THEN With([L1 \in {consumeChar(s, L)} |->
                With([escaped \in {peekChar(s, L1, 0)} |->
                With([out \in {
                           CASE escaped = "n" -> "\n"
                             [] escaped = "t" -> "\t"
                             [] OTHER -> escaped} |->
                   scanString(s, consumeChar(s, L1), acc \o out)])])])
           ELSE scanString(s, consumeChar(s, L), acc \o peekChar(s, L, 0))
    ELSE [text |-> acc, L |-> L]

Tok(type, text, r, c) == [type |-> type, src |-> text, row |-> r, col |-> c]

\* Lexer::nextToken from scan position L: [fail, tok, L].  fail # "" is a
\* run that ends the process inside the lexer.
RECURSIVE nextToken(_, _)
nextToken(s, L) ==
  IF L.c >= Len(s)
    THEN [fail |-> "", tok |-> Tok("EndOfFile", "", 0, 0), L |-> L]
  ELSE With([ch \in {peekChar(s, L, 0)} |->
    IF ch \in Spaces THEN nextToken(s, consumeChar(s, L))
    ELSE IF ch = "/" /\ L.c + 1 < Len(s) /\ peekChar(s, L, 1) = "/"
      THEN nextToken(s, skipLineComment(s, consumeChar(s, consumeChar(s, L))))
    ELSE IF ch = "/" /\ L.c + 1 < Len(s) /\ peekChar(s, L, 1) = "*"
      THEN nextToken(s, skipBlockComment(s, consumeChar(s, consumeChar(s, L))))
    ELSE IF ch \in DOMAIN symbolMap
      THEN [fail |-> "", tok |-> Tok(symbolMap[ch], ch, L.row, L.col),
            L |-> consumeChar(s, L)]
    ELSE IF ch \in Digits
      THEN With([int \in {scanWhile(s, L, Digits, "")} |->
           IF int.L.c >= Len(s)
             THEN \* peekChar() past the end: std::string::at throws
                  [fail |-> "out_of_range", tok |-> Tok("EndOfFile", "", 0, 0),
                   L |-> int.L]
           ELSE IF peekChar(s, int.L, 0) = "."
             THEN With([frac \in {scanWhile(s, consumeChar(s, int.L), Digits, "")} |->
                     [fail |-> "",
                      tok |-> Tok(IF frac.text = "" THEN "IntLit" ELSE "FloatLit",
                                  int.text \o "." \o frac.text, L.row, L.col),
                      L |-> frac.L]])
             ELSE [fail |-> "", tok |-> Tok("IntLit", int.text, L.row, L.col),
                   L |-> int.L]])
    ELSE IF ch = "\""
      THEN With([str \in {scanString(s, consumeChar(s, L), "")} |->
           IF str.L.c >= Len(s)
             THEN [fail |-> "Unterminated string literal",
                   tok |-> Tok("EndOfFile", "", 0, 0), L |-> str.L]
             ELSE [fail |-> "", tok |-> Tok("StringLit", str.text, L.row, L.col),
                   L |-> consumeChar(s, str.L)]])
    ELSE IF ch \in Alpha \cup {"_"}
      THEN With([word \in {scanWhile(s, L, Alpha \cup Digits \cup {"_"}, "")} |->
           [fail |-> "",
            tok |-> Tok(IF word.text \in DOMAIN keywordMap
                          THEN keywordMap[word.text] ELSE "Identifier",
                        word.text, L.row, L.col),
            L |-> word.L]])
    ELSE [fail |-> "Invalid character", tok |-> Tok("EndOfFile", "", 0, 0),
          L |-> L]])

\* the loop of peek(): push tokens until the deque is longer than offset
RECURSIVE fillLookAhead(_, _, _, _)
fillLookAhead(s, L, la, offset) ==
  IF Len(la) <= offset
    THEN With([n \in {nextToken(s, L)} |->
         IF n.fail # "" THEN [fail |-> n.fail, L |-> n.L, la |-> la]
         ELSE fillLookAhead(s, n.L, Append(la, n.tok), offset)])
    ELSE [fail |-> "", L |-> L, la |-> la]


\* Lexer::peek(offset) on scan position L and deque la: [fail, tok, L, la]
peek(s, L, la, offset) ==
  With([f \in {fillLookAhead(s, L, la, offset)} |->
  [fail |-> f.fail, L |-> f.L, la |-> f.la,
   tok |-> IF f.fail = "" THEN f.la[offset + 1] ELSE Tok("EndOfFile", "", 0, 0)]])

\* a consume() that scans the source instead of taking the deque's front
consumeFromSource(s, L, la) ==
  With([n \in {nextToken(s, L)} |->
  [fail |-> n.fail, L |-> n.L, la |-> la, tok |-> n.tok]])

\* Lexer::consume: [fail, tok, L, la]
consume(s, L, la) ==
  With([f \in {fillLookAhead(s, L, la, 0)} |->
  [fail |-> f.fail, L |-> f.L,
   la |-> IF f.fail = "" THEN Tail(f.la) ELSE f.la,
   tok |-> IF f.fail = "" THEN Head(f.la) ELSE Tok("EndOfFile", "", 0, 0)]])

\* Lexer::saveState
saveState ==
  [srcCursor |-> srcCursor, lookAhead |-> lookAhead, tokensCursor |-> 0,
   row |-> row, col |-> col]

\* a restoreState() that leaves the look-ahead deque as it is
restoreStateKeepsDeque(state) ==
  [srcCursor |-> state.srcCursor, lookAhead |-> lookAhead,
   row |-> state.row, col |-> state.col]

\* Lexer::restoreState: the fields the lexer takes from `state`
restoreState(state) ==
  [srcCursor |-> state.srcCursor, lookAhead |-> state.lookAhead,
   row |-> state.row, col |-> state.col]

\* the i-th token (from 0) that scanning s from position L produces
RECURSIVE tokenAt(_, _, _)
tokenAt(s, L, i) ==
  With([n \in {nextToken(s, L)} |->
  IF i = 0 \/ n.fail # "" THEN n.tok ELSE tokenAt(s, n.L, i - 1)])


\* one more token of a lexer run: t is [fail, toks, L, done], done when the
\* run has failed or has reached the end of file
tokenizeStep(s, t) ==
  With([n \in {nextToken(s, t.L)} |->
  IF n.fail # "" THEN [t EXCEPT !.fail = n.fail, !.done = TRUE]
  ELSE IF n.tok.type = "EndOfFile" THEN [t EXCEPT !.done = TRUE]
  ELSE [t EXCEPT !.toks = Append(t.toks, n.tok), !.L = n.L]])

\* up to k more tokens of a lexer run, the first half of them before the
\* second
RECURSIVE tokenizeUpTo(_, _, _)
tokenizeUpTo(s, t, k) ==
  IF t.done \/ k = 0 THEN t
  ELSE IF k = 1 THEN tokenizeStep(s, t)
  ELSE tokenizeUpTo(s, tokenizeUpTo(s, t, k \div 2), k - (k \div 2))

\* every token of s up to the end of file (the lexer run to the end):
\* [fail, toks]; a text has fewer tokens than characters
tokenize(s, L, acc) ==
  With([t \in {tokenizeUpTo(s, [fail |-> "", toks |-> acc, L |-> L, done |-> FALSE],
                            Len(s) + 1)} |->
  [fail |-> t.fail, toks |-> t.toks]])

-----------------------------------------------------------------------------
(* Type descriptors (ast::TypeNode and its subclasses).  A class reference *)
(* holds the declaration it shares; the declaration is named by the class  *)
(* name, which is unique in Parser::classes_.                              *)

\* a null std::shared_ptr<TypeNode>
NoType == [k |-> "null"]

\* ast::PrimitiveTypeNode
PrimitiveTypeNode(type, signed) == [k |-> "prim", type |-> type, signed |-> signed]
\* ast::PointerTypeNode
PointerTypeNode(target) == [k |-> "ptr", target |-> target]
\* ast::ArrayTypeNode
ArrayTypeNode(target, length) == [k |-> "array", target |-> target, length |-> length]
\* ast::ClassReferenceNode
ClassReferenceNode(decl) == [k |-> "class", decl |-> decl]

\* TypeNode::isSigned
RECURSIVE isSigned(_)
isSigned(t) ==
  CASE t.k = "prim" -> t.signed
    [] t.k = "ptr" -> isSigned(t.target)
    [] t.k = "array" -> isSigned(t.target)
    [] t.k = "class" -> FALSE

\* the registry the Parser constructor seeds (Parser::types_)
PrimitiveTypes ==
  [n \in {"bool", "void", "char", "uchar", "short", "ushort", "int", "uint",
          "long", "ulong", "half", "float", "double", "quad"} |->
     CASE n = "bool" -> PrimitiveTypeNode("Bool", FALSE)
       [] n = "void" -> PrimitiveTypeNode("Void", FALSE)
       [] n = "char" -> PrimitiveTypeNode("Char", TRUE)
       [] n = "uchar" -> PrimitiveTypeNode("Char", FALSE)
       [] n = "short" -> PrimitiveTypeNode("Short", TRUE)
       [] n = "ushort" -> PrimitiveTypeNode("Short", FALSE)
       [] n = "int" -> PrimitiveTypeNode("Int", TRUE)
       [] n = "uint" -> PrimitiveTypeNode("Int", FALSE)
       [] n = "long" -> PrimitiveTypeNode("Long", TRUE)
       [] n = "ulong" -> PrimitiveTypeNode("Long", FALSE)
       [] n = "half" -> PrimitiveTypeNode("Half", TRUE)
       [] n = "float" -> PrimitiveTypeNode("Float", TRUE)
       [] n = "double" -> PrimitiveTypeNode("Double", TRUE)
       [] n = "quad" -> PrimitiveTypeNode("Quad", TRUE)]

-----------------------------------------------------------------------------
(* std::map and std::string helpers.                                       *)

\* std::map::insert of one pair: an existing key keeps its value
MapInsert(m, key, val) ==
  IF key \in DOMAIN m THEN m
  ELSE [x \in DOMAIN m \cup {key} |-> IF x = key THEN val ELSE m[x]]

\* std::map::operator[] assignment: the key takes the new value
MapAssign(m, key, val) ==
  [x \in DOMAIN m \cup {key} |-> IF x = key THEN val ELSE m[x]]

\* the characters of identifiers in ASCII order
AsciiOrder == "0123456789ABCDEFGHIJKLMNOPQRSTUVWXYZ_abcdefghijklmnopqrstuvwxyz"

CharRank(c) == CHOOSE i \in 1..Len(AsciiOrder) : SubSeq(AsciiOrder, i, i) = c

\* std::less<std::string>: the order of a std::map's keys
RECURSIVE StrLess(_, _)
StrLess(a, b) ==
  IF Len(b) = 0 THEN FALSE
  ELSE IF Len(a) = 0 THEN TRUE
  ELSE With([x \in {CharRank(SubSeq(a, 1, 1))} |->
       With([y \in {CharRank(SubSeq(b, 1, 1))} |->
          IF x # y THEN x < y
          ELSE StrLess(SubSeq(a, 2, Len(a)), SubSeq(b, 2, Len(b)))])])

\* std::string::find('_') != npos
HasUnderscore(id) == \E i \in 1..Len(id) : SubSeq(id, i, i) = "_"

\* name.find(prefix) == 0
StartsWith(name, prefix) ==
  Len(name) >= Len(prefix) /\ SubSeq(name, 1, Len(prefix)) = prefix

-----------------------------------------------------------------------------
(* Parser state.  P is the record of the Parser object's fields:           *)
(*   toks, pos         the current lexer_: its token stream and cursor     *)
(*   file              currentFileName_                                    *)
(*   className         currentClassName_                                   *)
(*   functions         functions_                                          *)
(*   classes           classes_ : sequence of [name, members]              *)
(*   types             types_                                              *)
(*   scopes            scopes                                              *)
(*   importedFiles     importedFiles_                                      *)
(*   err               "" or the diagnostic that ended the process         *)
(* and of what the parser has done, kept for the properties:               *)
(*   built             the BinaryOperation nodes constructed so far        *)
(*   refused           the operand pairs parseBinaryOpRHS has rejected     *)
(*   declared          the data members in the order they were declared:   *)
(*                     sequence of [cls, member]                           *)
(*   headers           per entry of functions: class, source name and      *)
(*                     parameter names as written                          *)
(*   resolved          the bare names parseValue resolved, with the scope  *)
(*                     stack and class table at that moment, and the       *)
(*                     braces open at the name                             *)
(*   introduced        the names indexVariableType has entered, with the   *)
(*                     scope stack before the entry and the braces open    *)
(*                     at that point                                       *)
(* A parsing operator takes P and yields [P, v]: the new state and the     *)
(* value returned.  Once err is set nothing changes any more.              *)

R(P, v) == [P |-> P, v |-> v]

\* error::reportError: the diagnostic is printed and the process exits
reportError(P, msg) == IF P.err # "" THEN P ELSE [P EXCEPT !.err = msg]

EOFToken == Tok("EndOfFile", "", 0, 0)

\* lexer_->peek(offset)
lexPeek(P, offset) ==
  IF P.pos + offset <= Len(P.toks) THEN P.toks[P.pos + offset] ELSE EOFToken

\* lexer_->peekT(t, offset)
peekT(P, t, offset) == lexPeek(P, offset).type = t

\* lexer_->consume()
lexConsume(P) ==
  IF P.err # "" THEN P
  ELSE IF P.pos <= Len(P.toks) THEN [P EXCEPT !.pos = P.pos + 1] ELSE P

\* Parser::expect: [P, v = the token consumed]
expect(P, t) ==
  IF P.err # "" THEN R(P, EOFToken)
  ELSE IF lexPeek(P, 0).type # t
    THEN R(reportError(P, "Expected token: " \o t), EOFToken)
    ELSE R(lexConsume(P), lexPeek(P, 0))

\* Parser::validateIdentifier
validateIdentifier(P, id) ==
  IF P.err = "" /\ HasUnderscore(id)
    THEN reportError(P, "underscores are not allowed in identifiers")
    ELSE P

\* Parser::getTypeNode
getTypeNode(P, name) == IF name \in DOMAIN P.types THEN P.types[name] ELSE NoType

\* Parser::pushScope
pushScope(P) == [P EXCEPT !.scopes = Append(P.scopes, <<>>)]

\* Parser::popScope
popScope(P) ==
  IF P.scopes = <<>> THEN P
  ELSE [P EXCEPT !.scopes = SubSeq(P.scopes, 1, Len(P.scopes) - 1)]

\* the `{` tokens before the cursor `to` that no `}` before the cursor
\* closes, outermost first, each named by its index in the token stream: a
\* `{` is closed by the first `}` after it up to which as many braces close
\* as open
openBraces(toks, to) ==
  With([braces \in {{j \in 1..(to - 1) :
                       j <= Len(toks) /\ toks[j].type \in {"LBrace", "RBrace"}}} |->
  With([open \in {{i \in braces :
                    /\ toks[i].type = "LBrace"
                    /\ \A j \in braces :
                         (j > i /\ toks[j].type = "RBrace") =>
                           Cardinality({k \in braces : i <= k /\ k <= j
                                                       /\ toks[k].type = "LBrace"})
                             # Cardinality({k \in braces : i <= k /\ k <= j
                                                          /\ toks[k].type = "RBrace"})}} |->
     [n \in 1..Cardinality(open) |->
        CHOOSE i \in open : Cardinality({j \in open : j < i}) = n - 1]])])

\* Parser::indexVariableType
indexVariableType(P, name, type) ==
  [P EXCEPT !.scopes[Len(P.scopes)] = MapAssign(P.scopes[Len(P.scopes)], name, type),
            !.introduced = Append(P.introduced,
               [name |-> name, scopes |-> P.scopes, file |-> P.file,
                open |-> openBraces(P.toks, P.pos)])]

\* Parser::lookupVariableType: the innermost frame that has the name
RECURSIVE lookupInScopes(_, _, _)
lookupInScopes(scopes, i, name) ==
  IF i = 0 THEN NoType
  ELSE IF name \in DOMAIN scopes[i] THEN scopes[i][name]
  ELSE lookupInScopes(scopes, i - 1, name)

lookupVariableType(P, name) == lookupInScopes(P.scopes, Len(P.scopes), name)

\* a lookup that finds a return type for every name
lookupFunctionReturnTypeAny(P, name) == PrimitiveTypeNode("Int", TRUE)

\* Parser::lookupFunctionReturnType: the first function of that name
lookupFunctionReturnType(P, name) ==
  IF \E i \in 1..Len(P.functions) : P.functions[i].name = name
    THEN With([i \in {
                  CHOOSE i \in 1..Len(P.functions) :
                    /\ P.functions[i].name = name
                    /\ \A j \in 1..(i - 1) : P.functions[j].name # name} |->
            P.functions[i].type])
    ELSE NoType

\* the base the parser reads an integer literal in: 16 after "0x" or "0X"
literalBase(intStr) ==
  IF Len(intStr) > 2 /\ SubSeq(intStr, 1, 1) = "0"
       /\ SubSeq(intStr, 2, 2) \in {"x", "X"}
    THEN 16 ELSE 10

\* the value of a digit character in a base, or -1 when it is no digit of it
digitValue(c, base) ==
  With([v \in {
            IF c \in Digits \cup {"A", "B", "C", "D", "E", "F"} THEN CharRank(c) - 1
            ELSE IF c \in {"a", "b", "c", "d", "e", "f"} THEN CharRank(c) - 28
            ELSE -1} |->
     IF v < base THEN v ELSE -1])

\* std::stoi(intStr, nullptr, base) on the digits that start the text; in
\* base 16 a leading "0x" or "0X" is skipped
RECURSIVE stoiFrom(_, _, _)
stoiFrom(text, base, acc) ==
  IF Len(text) > 0 /\ digitValue(SubSeq(text, 1, 1), base) >= 0
    THEN stoiFrom(SubSeq(text, 2, Len(text)), base,
                  base * acc + digitValue(SubSeq(text, 1, 1), base))
    ELSE acc

stoi(text, base) ==
  stoiFrom(IF base = 16 /\ Len(text) >= 2 /\ SubSeq(text, 1, 1) = "0"
                /\ SubSeq(text, 2, 2) \in {"x", "X"}
             THEN SubSeq(text, 3, Len(text)) ELSE text,
           base, 0)

\* the loop of leading `ptr` tokens: [P, v = how many]
RECURSIVE countPtrs(_, _)
countPtrs(P, n) ==
  IF peekT(P, "Ptr", 0) THEN countPtrs(lexConsume(P), n + 1) ELSE R(P, n)

RECURSIVE wrapPtrs(_, _)
wrapPtrs(t, n) == IF n = 0 THEN t ELSE wrapPtrs(PointerTypeNode(t), n - 1)

\* Parser::parseType: [P, v = the type, or NoType when the next token does
\* not name a registered type]
parseType(P) ==
  IF P.err # "" THEN R(P, NoType)
  ELSE With([p \in {countPtrs(P, 0)} |->
       With([newType \in {getTypeNode(p.P, lexPeek(p.P, 0).src)} |->
          IF newType = NoType THEN R(p.P, NoType)
          ELSE With([P1 \in {lexConsume(p.P)} |->
               IF peekT(P1, "LBracket", 0)
                 THEN With([e \in {expect(lexConsume(P1), "IntLit")} |->
                      With([arrayLen \in {stoi(e.v.src, literalBase(e.v.src))} |->
                      With([c \in {expect(e.P, "RBracket")} |->
                      With([t \in {wrapPtrs(newType, p.v)} |->
                         IF c.P.err # "" THEN R(c.P, NoType)
                         ELSE R(c.P, IF arrayLen # 0 THEN ArrayTypeNode(t, arrayLen)
                                                    ELSE t)])])])])
                 ELSE R(P1, wrapPtrs(newType, p.v))])])])

RECURSIVE countPtrsAhead(_, _)
countPtrsAhead(P, i) == IF peekT(P, "Ptr", i) THEN countPtrsAhead(P, i + 1) ELSE i

\* Parser::getNextTypeLength: the number of tokens of the type ahead
getNextTypeLength(P) ==
  With([i0 \in {countPtrsAhead(P, 0)} |->
  With([i1 \in {IF peekT(P, "Identifier", i0) THEN i0 + 1 ELSE i0} |->
     IF peekT(P, "LBracket", i1)
       THEN With([i2 \in {i1 + 1} |->
            With([i3 \in {IF peekT(P, "IntLit", i2) THEN i2 + 1 ELSE i2} |->
               IF peekT(P, "RBracket", i3) THEN i3 + 1 ELSE i3])])
       ELSE i1])])

-----------------------------------------------------------------------------
(* Expression nodes (ast::ExpressionNode and its subclasses).              *)

\* a null std::unique_ptr<ExpressionNode>
NoExpr == [k |-> "none", signed |-> FALSE]

VariableReference(name, signed) ==
  [k |-> "VariableReference", name |-> name, signed |-> signed]
StructAccess(structExpr, memberName, structName, signed, type) ==
  [k |-> "StructAccess", structExpr |-> structExpr, memberName |-> memberName,
   structName |-> structName, signed |-> signed, type |-> type]
ArrayAccess(arrayExpr, indexExpr, signed, type) ==
  [k |-> "ArrayAccess", arrayExpr |-> arrayExpr, indexExpr |-> indexExpr,
   signed |-> signed, type |-> type]
PtrIndexAccess(ptrExpr, indexExpr, signed, type) ==
  [k |-> "PtrIndexAccess", ptrExpr |-> ptrExpr, indexExpr |-> indexExpr,
   signed |-> signed, type |-> type]
Dref(target, derivedType, signed) ==
  [k |-> "Dref", target |-> target, derivedType |-> derivedType, signed |-> signed]
AddressOf(target, signed) ==
  [k |-> "AddressOf", target |-> target, signed |-> signed]
IntLiteral(value) == [k |-> "IntLiteral", value |-> value, signed |-> TRUE]
FloatLiteral(negative, text) ==
  [k |-> "FloatLiteral", negative |-> negative, text |-> text, signed |-> TRUE]
StringLiteral(value) == [k |-> "StringLiteral", value |-> value, signed |-> FALSE]
FunctionCall(name, args, signed) ==
  [k |-> "FunctionCall", name |-> name, args |-> args, signed |-> signed]
BinaryOperation(opType, L, Rt, signed) ==
  [k |-> "BinaryOperation", opType |-> opType, L |-> L, R |-> Rt, signed |-> signed]

\* the declaration a class reference shares: the entry of classes_ of that name
classDecl(P, name) ==
  P.classes[CHOOSE i \in 1..Len(P.classes) : P.classes[i].name = name]

\* ClassNode::lookupMemberType
lookupMemberType(decl, name) ==
  IF name \in DOMAIN decl.members THEN decl.members[name] ELSE NoType

\* an index that is 0 for every member
lookupMemberIndexFirst(decl, name) == 0

\* ClassNode::lookupMemberIndex: std::distance(members_.begin(), it), the
\* number of keys that sort before the name
lookupMemberIndex(decl, name) ==
  Cardinality({m \in DOMAIN decl.members : StrLess(m, name)})

\* the iteration `for (const auto &pair : members_)` of ClassNode::codeGen:
\* the member names in key order, which is the order of the struct body
RECURSIVE keysInOrder(_)
keysInOrder(keys) ==
  IF keys = {} THEN <<>>
  ELSE With([first \in {CHOOSE m \in keys : \A x \in keys \ {m} : StrLess(m, x)} |->
          <<first>> \o keysInOrder(keys \ {first})])

memberNames(decl) == keysInOrder(DOMAIN decl.members)

\* a precedence table that gives every operator the same precedence
getOperatorPrecedenceFlat(type) ==
  IF type \in {"Asterisk", "Slash", "Plus", "Minus", "Less", "Greater", "Equals"}
    THEN 10 ELSE -1

\* getOperatorPrecedence
getOperatorPrecedence(type) ==
  CASE type \in {"Asterisk", "Slash"} -> 20
    [] type \in {"Plus", "Minus"} -> 10
    [] type \in {"Less", "Greater"} -> 5
    [] type = "Equals" -> 3
    [] OTHER -> -1

\* Parser::tokenToBinaryOp, for the tokens that have a precedence
tokenToBinaryOp(type) ==
  CASE type = "Plus" -> "Add" [] type = "Minus" -> "Subtract"
    [] type = "Asterisk" -> "Multiply" [] type = "Slash" -> "Divide"
    [] type = "Less" -> "Less" [] type = "Greater" -> "More"
    [] type = "Equals" -> "Equal"

\* the lambda isTerminator of parseBinaryOpRHS
isTerminator(P, terminator) ==
  \/ lexPeek(P, 0).type = terminator
  \/ terminator = "Comma" /\ lexPeek(P, 0).type = "RParen"

\* a signedness test that only rejects signed-with-unsigned, not the reverse
signednessDiffersOneWay(lhs, rhs) == lhs.signed /\ ~rhs.signed

\* the test of parseBinaryOpRHS: lhs->isSigned() != rhs->isSigned()
signednessDiffers(lhs, rhs) == lhs.signed # rhs.signed

\* the loops `while (drefs--)` that wrap a value in Dref nodes:
\* [P, v = [expr, type]]
RECURSIVE applyDrefs(_, _, _, _)
applyDrefs(P, target, derivedType, n) ==
  IF P.err # "" \/ n = 0 THEN R(P, [expr |-> target, type |-> derivedType])
  ELSE IF derivedType.k # "ptr"
    THEN R(reportError(P, "Cannot dereference non-pointer type"),
           [expr |-> target, type |-> derivedType])
    ELSE applyDrefs(P, Dref(target, derivedType.target, isSigned(derivedType.target)),
                    derivedType.target, n - 1)

\* the loops that count `$` tokens: [P, v = how many]
RECURSIVE countDollars(_, _)
countDollars(P, n) ==
  IF peekT(P, "Dollar", 0) THEN countDollars(lexConsume(P), n + 1) ELSE R(P, n)

RECURSIVE parseExpression(_, _)
RECURSIVE parsePrimaryExpression(_, _)
RECURSIVE parseBinaryOpRHS(_, _, _, _)
RECURSIVE parseArgs(_, _)
RECURSIVE parseValue(_)
RECURSIVE parsePostfix(_, _, _, _)

\* an argument loop that puts each argument in front of the earlier ones
RECURSIVE parseArgsReversed(_, _)
parseArgsReversed(P, args) ==
  IF P.err # "" THEN R(P, args)
  ELSE IF lexPeek(P, 0).type # "RParen"
    THEN With([e \in {parseExpression(P, "Comma")} |->
         IF e.P.err # "" THEN R(e.P, args)
         ELSE parseArgsReversed(IF lexPeek(e.P, 0).type = "Comma" THEN lexConsume(e.P)
                                                                 ELSE e.P,
                                <<e.v>> \o args)])
    ELSE R(lexConsume(P), args)

\* the argument loops `while (peek != RParen) { parseExpression(Comma); ... }`
\* and the consume() of the closing parenthesis: [P, v = the arguments]
parseArgs(P, args) ==
  IF P.err # "" THEN R(P, args)
  ELSE IF lexPeek(P, 0).type # "RParen"
    THEN With([e \in {parseExpression(P, "Comma")} |->
         IF e.P.err # "" THEN R(e.P, args)
         ELSE parseArgs(IF lexPeek(e.P, 0).type = "Comma" THEN lexConsume(e.P)
                                                         ELSE e.P,
                        Append(args, e.v))])
    ELSE R(lexConsume(P), args)

\* the test "non-detached member function calls must be made using an
\* instance" shared by parsePrimaryExpression and parseStatement
calledWithoutInstance(P, name) ==
  /\ P.className # ""
  /\ HasUnderscore(name)
  /\ StartsWith(name, P.className \o "_")

\* Parser::parsePrimaryExpression: [P, v = the expression]
parsePrimaryExpression(P, terminator) ==
  IF P.err # "" THEN R(P, NoExpr)
  ELSE With([t \in {lexPeek(P, 0).type} |->
  CASE t = "IntLit" -> R(lexConsume(P), IntLiteral(stoi(lexPeek(P, 0).src,
                                                   literalBase(lexPeek(P, 0).src))))
    [] t = "StringLit" -> R(lexConsume(P), StringLiteral(lexPeek(P, 0).src))
    [] t = "FloatLit" -> R(lexConsume(P), FloatLiteral(FALSE, lexPeek(P, 0).src))
    [] t = "Minus" ->
         With([P1 \in {lexConsume(P)} |->
         IF peekT(P1, "FloatLit", 0)
           THEN R(lexConsume(P1), FloatLiteral(TRUE, lexPeek(P1, 0).src))
           ELSE With([e \in {expect(P1, "IntLit")} |->
                IF e.P.err # "" THEN R(e.P, NoExpr)
                ELSE R(e.P, IntLiteral(0 - stoi(e.v.src, literalBase(e.v.src))))])])
    [] t \in {"Ampersand", "Dollar", "Identifier"} ->
         IF peekT(P, "LParen", 1)
           THEN With([n \in {expect(P, "Identifier")} |->
                IF n.P.err # "" THEN R(n.P, NoExpr)
                ELSE With([P1 \in {validateIdentifier(n.P, n.v.src)} |->
                     With([name \in {n.v.src} |->
                     With([a \in {parseArgs(expect(P1, "LParen").P, <<>>)} |->
                     With([functionReturnType \in {lookupFunctionReturnType(a.P, name)} |->
                        IF a.P.err # "" THEN R(a.P, NoExpr)
                        ELSE IF functionReturnType = NoType
                          THEN R(reportError(a.P, "Call to undefined function"), NoExpr)
                        ELSE IF calledWithoutInstance(a.P, name)
                          THEN R(reportError(a.P, "Cannot call member function without an instance"),
                                 NoExpr)
                        ELSE R(a.P, FunctionCall(name, a.v, isSigned(functionReturnType)))])])])])])
           ELSE With([v \in {parseValue(P)} |-> R(v.P, v.v.expr)])
    [] t = "LParen" ->
         With([e \in {parseExpression(expect(P, "LParen").P, "RParen")} |->
         With([c \in {expect(e.P, "RParen")} |->
            R(c.P, e.v)])])
    [] OTHER -> R(reportError(P, "Unexpected token in expression"), NoExpr)])

\* Parser::parseBinaryOpRHS: [P, v = the expression]
parseBinaryOpRHS(P, exprPrec, lhs, terminator) ==
  IF P.err # "" THEN R(P, lhs)
  ELSE IF isTerminator(P, terminator) THEN R(P, lhs)
  ELSE With([tokType \in {lexPeek(P, 0).type} |->
    IF tokType = "Equals" /\ ~peekT(P, "Equals", 1)
      THEN R(reportError(P, "Variable assignment is not an expression"), lhs)
    ELSE With([tokPrec \in {getOperatorPrecedence(tokType)} |->
      IF tokPrec < exprPrec THEN R(P, lhs)
      ELSE With([P1 \in {
                     IF tokType = "Equals" THEN lexConsume(lexConsume(P))
                                         ELSE lexConsume(P)} |->
           With([r0 \in {parsePrimaryExpression(P1, terminator)} |->
              IF r0.P.err # "" THEN R(r0.P, lhs)
              ELSE With([nextTokType \in {lexPeek(r0.P, 0).type} |->
                   With([deeper \in {
                         /\ ~isTerminator(r0.P, terminator)
                         /\ ~(nextTokType = "Equals" /\ ~peekT(r0.P, "Equals", 1))
                         /\ getOperatorPrecedence(nextTokType) > tokPrec} |->
                   With([r1 \in {
                             IF deeper
                               THEN parseBinaryOpRHS(r0.P, tokPrec + 1, r0.v, terminator)
                               ELSE r0} |->
                      IF r1.P.err # "" THEN R(r1.P, lhs)
                      ELSE IF signednessDiffers(lhs, r1.v)
                        THEN R(reportError(
                                 [r1.P EXCEPT !.refused = Append(r1.P.refused,
                                                [L |-> lhs, R |-> r1.v])],
                                 "Cannot create binary operation with types of different signedness"),
                               lhs)
                      ELSE With([node \in {
                                       BinaryOperation(tokenToBinaryOp(tokType), lhs,
                                                       r1.v, lhs.signed)} |->
                              parseBinaryOpRHS(
                                [r1.P EXCEPT !.built = Append(r1.P.built, node)],
                                exprPrec, node, terminator)])])])])])])])])

\* Parser::parseExpression: [P, v = the expression]
parseExpression(P, terminator) ==
  With([lhs \in {parsePrimaryExpression(P, terminator)} |->
  IF lhs.P.err # "" THEN R(lhs.P, NoExpr)
  ELSE parseBinaryOpRHS(lhs.P, 0, lhs.v, terminator)])

\* a name lookup that tries the members of `this` before the scope stack
resolveNameMemberFirst(P, name) ==
  With([thisType \in {lookupVariableType(P, "this")} |->
  With([viaThis \in {thisType.k = "ptr" /\ thisType.target.k = "class"} |->
  With([fieldType \in {
                   IF viaThis
                     THEN lookupMemberType(classDecl(P, thisType.target.decl), name)
                     ELSE NoType} |->
  With([derivedType \in {lookupVariableType(P, name)} |->
     IF fieldType # NoType
       THEN [expr |-> StructAccess(Dref(VariableReference("this", isSigned(thisType)),
                                        thisType.target, isSigned(thisType.target)),
                                   name, thisType.target.decl, isSigned(fieldType),
                                   thisType.target),
             type |-> fieldType]
     ELSE IF derivedType # NoType
       THEN [expr |-> VariableReference(name, isSigned(derivedType)),
             type |-> derivedType]
     ELSE [expr |-> NoExpr, type |-> NoType]])])])])

\* the name resolution of Parser::parseValue: [expr, type]; type = NoType
\* is "Undefined variable"
resolveName(P, name) ==
  With([derivedType \in {lookupVariableType(P, name)} |->
  IF derivedType # NoType
    THEN \* must be a local (non-member) variable
         [expr |-> VariableReference(name, isSigned(derivedType)),
          type |-> derivedType]
    ELSE With([thisType \in {lookupVariableType(P, "this")} |->
         With([viaThis \in {thisType.k = "ptr" /\ thisType.target.k = "class"} |->
         With([fieldType \in {
                          IF viaThis
                            THEN lookupMemberType(classDecl(P, thisType.target.decl), name)
                            ELSE NoType} |->
            IF fieldType # NoType
              THEN \* member variable access via implicit 'this' pointer
                   [expr |-> StructAccess(
                               Dref(VariableReference("this", isSigned(thisType)),
                                    thisType.target, isSigned(thisType.target)),
                               name, thisType.target.decl, isSigned(fieldType),
                               thisType.target),
                    type |-> fieldType]
              ELSE [expr |-> NoExpr, type |-> NoType]])])])])

\* Parser::parseValue up to its postfix loop: the prefix `$` and `&`, the
\* name and its resolution: [P, v = [expr, type], addressOf]; P.err # ""
\* when a diagnostic was reported
parseValueHead(P) ==
  With([none \in {[expr |-> NoExpr, type |-> NoType]} |->
  With([d \in {countDollars(P, 0)} |->
  With([addressOf \in {peekT(d.P, "Ampersand", 0)} |->
  With([P1 \in {IF addressOf THEN lexConsume(d.P) ELSE d.P} |->
  With([n \in {expect(P1, "Identifier")} |->
     IF n.P.err # "" THEN [P |-> n.P, v |-> none, addressOf |-> addressOf]
     ELSE With([P2 \in {validateIdentifier(n.P, n.v.src)} |->
          With([res \in {resolveName(P2, n.v.src)} |->
          With([P3 \in {
                    [P2 EXCEPT !.resolved = Append(P2.resolved,
                      [name |-> n.v.src, scopes |-> P2.scopes,
                       classes |-> P2.classes, cls |-> P2.className,
                       expr |-> res.expr, file |-> P2.file,
                       open |-> openBraces(P2.toks, P2.pos)])]} |->
             IF P2.err # "" THEN [P |-> P2, v |-> none, addressOf |-> addressOf]
             ELSE IF res.type = NoType
               THEN [P |-> reportError(P3, "Undefined variable"), v |-> none,
                     addressOf |-> addressOf]
             ELSE With([a \in {applyDrefs(P3, res.expr, res.type, d.v)} |->
                  [P |-> a.P, v |-> a.v, addressOf |-> addressOf]])])])])])])])])])

\* Parser::parseValue: [P, v = [expr, type]]
parseValue(P) ==
  With([none \in {[expr |-> NoExpr, type |-> NoType]} |->
  IF P.err # "" THEN R(P, none)
  ELSE With([h \in {parseValueHead(P)} |->
       IF h.P.err # "" THEN R(h.P, none)
       ELSE parsePostfix(h.P, h.v.expr, h.v.type, h.addressOf)])])

\* the `.` arm of the postfix loop up to the member name:
\* [P, base, structType, structDecl, fieldName, drefs]; P.err # "" when a
\* diagnostic was reported
postfixMember(P, target, derivedType) ==
  With([P1 \in {lexConsume(P)} |->
  With([direct \in {derivedType.k = "class"} |->
  With([viaPtr \in {derivedType.k = "ptr" /\ derivedType.target.k = "class"} |->
     IF ~direct /\ ~viaPtr
       THEN [P |-> reportError(P1, "Cannot access member of non-struct type")]
     ELSE With([structType \in {IF direct THEN derivedType ELSE derivedType.target} |->
          \* auto dereference if derivedType is a pointer to a struct
          With([base \in {
                      IF direct THEN target
                      ELSE Dref(target, structType, isSigned(structType))} |->
          With([m \in {countDollars(P1, 0)} |->
          With([f \in {expect(m.P, "Identifier")} |->
             IF f.P.err # "" THEN [P |-> f.P]
             ELSE [P |-> validateIdentifier(f.P, f.v.src), base |-> base,
                   structType |-> structType,
                   structDecl |-> classDecl(f.P, structType.decl),
                   fieldName |-> f.v.src, drefs |-> m.v]])])])])])])])

\* the postfix loop of Parser::parseValue: [P, v = [expr, type]]
parsePostfix(P, target, derivedType, addressOf) ==
  With([none \in {[expr |-> NoExpr, type |-> NoType]} |->
  IF P.err # "" THEN R(P, none)
  ELSE IF peekT(P, "Period", 0)
    THEN With([h \in {postfixMember(P, target, derivedType)} |->
         IF h.P.err # "" THEN R(h.P, none)
         ELSE IF peekT(h.P, "LParen", 0)
           THEN With([a \in {
                         parseArgs(lexConsume(h.P),
                                   <<AddressOf(h.base, isSigned(h.structType))>>)} |->
                With([methodName \in {h.structDecl.name \o "_" \o h.fieldName} |->
                With([functionReturnType \in {lookupFunctionReturnType(a.P, methodName)} |->
                   IF a.P.err # "" THEN R(a.P, none)
                   ELSE IF functionReturnType = NoType
                     THEN R(reportError(a.P, "Call to undefined member method"), none)
                   ELSE R(a.P,
                          [expr |-> FunctionCall(methodName, a.v,
                                      isSigned(functionReturnType)),
                           type |-> functionReturnType])])])])
         ELSE With([fieldType \in {lookupMemberType(h.structDecl, h.fieldName)} |->
              IF fieldType = NoType
                THEN R(reportError(h.P, "Struct has no member"), none)
              ELSE With([a \in {
                            applyDrefs(h.P,
                              StructAccess(h.base, h.fieldName, h.structDecl.name,
                                           isSigned(fieldType), h.structType),
                              fieldType, h.drefs)} |->
                      IF a.P.err # "" THEN R(a.P, none)
                      ELSE parsePostfix(a.P, a.v.expr, a.v.type, addressOf)])])])
  ELSE IF peekT(P, "LBracket", 0)
    THEN With([P1 \in {lexConsume(P)} |->
         IF derivedType.k \notin {"array", "ptr"}
           THEN R(reportError(P1, "Cannot apply subscript operator to non-array/non-pointer type"),
                  none)
         ELSE With([i \in {parseExpression(P1, "RBracket")} |->
              With([c \in {expect(i.P, "RBracket")} |->
                 IF c.P.err # "" THEN R(c.P, none)
                 ELSE parsePostfix(c.P,
                        IF derivedType.k = "array"
                          THEN ArrayAccess(target, i.v, isSigned(derivedType), derivedType)
                          ELSE PtrIndexAccess(target, i.v, isSigned(derivedType), derivedType),
                        derivedType.target, addressOf)])])])
  ELSE R(P, [expr |-> IF addressOf THEN AddressOf(target, isSigned(derivedType))
                                   ELSE target,
             type |-> derivedType])])

-----------------------------------------------------------------------------
(* Statement nodes (ast::StatementNode and its subclasses).                *)

NoStmt == [k |-> "none"]

VariableDeclaration(type, name, initialValue) ==
  [k |-> "VariableDeclaration", type |-> type, name |-> name,
   initialValue |-> initialValue]
AssignmentStatement(target, value) ==
  [k |-> "AssignmentStatement", target |-> target, value |-> value]
Return(value) == [k |-> "Return", value |-> value]
\* falseBody is a std::optional: hasFalseBody tells whether it holds a list
If(condition, trueBody, hasFalseBody, falseBody) ==
  [k |-> "If", condition |-> condition, trueBody |-> trueBody,
   hasFalseBody |-> hasFalseBody, falseBody |-> falseBody]
While(condition, body) == [k |-> "While", condition |-> condition, body |-> body]
ExpressionStatement(expression) ==
  [k |-> "ExpressionStatement", expression |-> expression]

RECURSIVE parseStatement(_)
RECURSIVE parseStatements(_, _, _)

\* the loops `while (!peekT(stop ...)) body.emplace_back(parseStatement())`:
\* [P, v = the statements]
parseStatements(P, stops, acc) ==
  IF P.err # "" THEN R(P, acc)
  ELSE IF lexPeek(P, 0).type \in stops THEN R(P, acc)
  ELSE With([st \in {parseStatement(P)} |->
       IF st.P.err # "" THEN R(st.P, acc)
       ELSE parseStatements(st.P, stops, Append(acc, st.v))])

\* Parser::parseStatement: [P, v = the statement]
parseStatement(P) ==
  IF P.err # "" THEN R(P, NoStmt)
  ELSE With([t \in {lexPeek(P, 0).type} |->
  CASE t = "Return" ->
         With([P1 \in {lexConsume(P)} |->
         IF peekT(P1, "Semi", 0) THEN R(lexConsume(P1), Return(NoExpr))
         ELSE With([e \in {parseExpression(P1, "Semi")} |->
              With([c \in {expect(e.P, "Semi")} |->
                 R(c.P, Return(e.v))])])])
    [] t = "If" ->
         With([o \in {expect(lexConsume(P), "LParen")} |->
         With([cond \in {parseExpression(o.P, "RParen")} |->
         With([b \in {expect(expect(cond.P, "RParen").P, "LBrace")} |->
         With([tb \in {parseStatements(b.P, {"Else", "RBrace"}, <<>>)} |->
         With([c \in {expect(tb.P, "RBrace")} |->
            IF c.P.err # "" THEN R(c.P, NoStmt)
            ELSE IF peekT(c.P, "Else", 0)
              THEN With([fb \in {parseStatements(lexConsume(c.P), {"RBrace"}, <<>>)} |->
                   With([c2 \in {expect(fb.P, "RBrace")} |->
                      R(c2.P, If(cond.v, tb.v, TRUE, fb.v))])])
              ELSE R(c.P, If(cond.v, tb.v, FALSE, <<>>))])])])])])
    [] t = "While" ->
         With([o \in {expect(lexConsume(P), "LParen")} |->
         With([cond \in {parseExpression(o.P, "RParen")} |->
         With([b \in {expect(expect(cond.P, "RParen").P, "LBrace")} |->
         With([body \in {parseStatements(b.P, {"RBrace"}, <<>>)} |->
         With([c \in {expect(body.P, "RBrace")} |->
            R(c.P, While(cond.v, body.v))])])])])])
    [] OTHER ->
         With([ty \in {parseType(P)} |->
         IF ty.P.err # "" THEN R(ty.P, NoStmt)
         ELSE IF ty.v # NoType
           THEN \* a variable declaration with optional assignment
                With([n \in {expect(ty.P, "Identifier")} |->
                IF n.P.err # "" THEN R(n.P, NoStmt)
                ELSE With([P1 \in {validateIdentifier(n.P, n.v.src)} |->
                     With([hasInit \in {peekT(P1, "Equals", 0)} |->
                     With([init \in {
                                 IF hasInit THEN parseExpression(lexConsume(P1), "Semi")
                                 ELSE R(P1, NoExpr)} |->
                     With([c \in {expect(init.P, "Semi")} |->
                        IF c.P.err # "" THEN R(c.P, NoStmt)
                        ELSE R(indexVariableType(c.P, n.v.src, ty.v),
                               VariableDeclaration(ty.v, n.v.src, init.v))])])])])])
         ELSE IF peekT(ty.P, "Identifier", 0) /\ peekT(ty.P, "LParen", 1)
           THEN \* a detached function call
                With([n \in {expect(ty.P, "Identifier")} |->
                With([P1 \in {validateIdentifier(n.P, n.v.src)} |->
                With([name \in {n.v.src} |->
                With([a \in {parseArgs(expect(P1, "LParen").P, <<>>)} |->
                With([c \in {expect(a.P, "Semi")} |->
                With([functionReturnType \in {lookupFunctionReturnType(c.P, name)} |->
                   IF c.P.err # "" THEN R(c.P, NoStmt)
                   ELSE IF functionReturnType = NoType
                     THEN R(reportError(c.P, "Call to undefined function"), NoStmt)
                   ELSE IF calledWithoutInstance(c.P, name)
                     THEN R(reportError(c.P, "Cannot call member function without an instance"),
                            NoStmt)
                   ELSE R(c.P, ExpressionStatement(
                                 FunctionCall(name, a.v, isSigned(functionReturnType))))])])])])])])
         ELSE With([v \in {parseValue(ty.P)} |->
              IF v.P.err # "" THEN R(v.P, NoStmt)
              ELSE IF v.v.expr.k = "FunctionCall"
                THEN \* a method call statement
                     R(expect(v.P, "Semi").P, ExpressionStatement(v.v.expr))
              ELSE With([e \in {parseExpression(expect(v.P, "Equals").P, "Semi")} |->
                   With([c \in {expect(e.P, "Semi")} |->
                      R(c.P, AssignmentStatement(v.v.expr, e.v))])])])])])

-----------------------------------------------------------------------------
(* Functions and classes.                                                  *)

\* ast::FunctionNode
FunctionNode(name, type, isPublic, params, hasBody, body, isDetached) ==
  [name |-> name, type |-> type, isPublic |-> isPublic, params |-> params,
   hasBody |-> hasBody, body |-> body, isDetached |-> isDetached]

\* the parameter loop of Parser::parseFunction: [P, v = the parameters]
RECURSIVE parseParams(_, _)
parseParams(P, params) ==
  IF P.err # "" THEN R(P, params)
  ELSE IF lexPeek(P, 0).type # "RParen"
    THEN With([ty \in {parseType(P)} |->
         With([n \in {expect(ty.P, "Identifier")} |->
            IF n.P.err # "" THEN R(n.P, params)
            ELSE With([P1 \in {validateIdentifier(n.P, n.v.src)} |->
                 parseParams(IF peekT(P1, "Comma", 0) THEN lexConsume(P1) ELSE P1,
                             Append(params, [name |-> n.v.src, type |-> ty.v]))])])])
    ELSE R(P, params)

\* `for (param : params) indexVariableType(param.first, param.second)`
RECURSIVE indexParams(_, _, _)
indexParams(P, params, i) ==
  IF i > Len(params) THEN P
  ELSE indexParams(indexVariableType(P, params[i].name, params[i].type), params, i + 1)

\* the `this` parameter that parseFunction puts first for a method: the
\* list is empty for a detached function and when the class name is not a
\* registered type
implicitParams(P, isDetached) ==
  IF ~isDetached /\ P.className # "" /\ getTypeNode(P, P.className) # NoType
    THEN <<[name |-> "this", type |-> PointerTypeNode(getTypeNode(P, P.className))]>>
    ELSE <<>>

\* the name parseFunction gives a function: ClassName_baseName in a class
mangledName(className, baseName) ==
  IF className = "" THEN baseName ELSE className \o "_" \o baseName

\* the identifiers between two cursors of the token stream that are followed
\* by `,` or `)`: the parameter names as written in the source
writtenParams(toks, from, to) ==
  LET idx == {i \in from..(to - 1) :
                /\ toks[i].type = "Identifier"
                /\ toks[i + 1].type \in {"Comma", "RParen"}}
      RECURSIVE inOrder(_, _)
      inOrder(i, acc) ==
        IF i >= to THEN acc
        ELSE inOrder(i + 1, IF i \in idx THEN Append(acc, toks[i].src) ELSE acc)
  IN inOrder(from, <<>>)

\* the record of a function header as written: the class it stands in, its
\* source name and its parameter names (Popen, Pclose: the parser at `(`
\* and after `)`)
logHeader(P, baseName, Popen, Pclose) ==
  [P EXCEPT !.headers = Append(P.headers,
     [cls |-> P.className, base |-> baseName,
      params |-> writtenParams(P.toks, Popen.pos, Pclose.pos)])]

\* Parser::parseFunction up to the closing parenthesis of the header:
\* [P, base, name, type, params, isDetached, open]; P.err # "" when a
\* diagnostic was reported, open is the parser at `(`
parseFunctionHeader(P) ==
  With([isDetached \in {P.className = ""} |->
  With([ty \in {parseType(P)} |->
  With([n \in {expect(ty.P, "Identifier")} |->
     IF n.P.err # "" THEN [P |-> n.P]
     ELSE With([P1 \in {validateIdentifier(n.P, n.v.src)} |->
          With([o \in {expect(P1, "LParen")} |->
          With([ps \in {parseParams(o.P, implicitParams(o.P, isDetached))} |->
             [P |-> expect(ps.P, "RParen").P, base |-> n.v.src,
              name |-> mangledName(P1.className, n.v.src), type |-> ty.v,
              params |-> ps.v, isDetached |-> isDetached, open |-> o.P]])])])])])])

\* Parser::parseFunction: [P, v = the FunctionNode]
parseFunction(P) ==
  With([none \in {FunctionNode("", NoType, TRUE, <<>>, FALSE, <<>>, TRUE)} |->
  IF P.err # "" THEN R(P, none)
  ELSE With([h \in {parseFunctionHeader(P)} |->
       IF h.P.err # "" THEN R(h.P, none)
       ELSE IF peekT(h.P, "LBrace", 0)
         THEN With([body \in {
                       parseStatements(indexParams(pushScope(lexConsume(h.P)),
                                                   h.params, 1),
                                       {"RBrace"}, <<>>)} |->
              With([e \in {expect(body.P, "RBrace")} |->
                 IF e.P.err # "" THEN R(e.P, none)
                 ELSE R(logHeader(popScope(e.P), h.base, h.open, h.P),
                        FunctionNode(h.name, h.type, TRUE, h.params, TRUE, body.v,
                                     h.isDetached))])])
         ELSE \* whatever token follows the header is consumed
              R(logHeader(lexConsume(h.P), h.base, h.open, h.P),
                FunctionNode(h.name, h.type, TRUE, h.params, FALSE, <<>>,
                             h.isDetached))])])

\* ast::ClassNode
ClassNode(name, members) == [name |-> name, members |-> members]

\* the parameter-skipping loop of the first pass of parseClass
RECURSIVE skipParams(_)
skipParams(P) ==
  IF P.err # "" THEN P
  ELSE IF lexPeek(P, 0).type # "RParen"
    THEN With([P1 \in {
                   IF lexPeek(P, 0).type # "Comma"
                     THEN With([n \in {expect(parseType(P).P, "Identifier")} |->
                          IF n.P.err # "" THEN n.P
                          ELSE validateIdentifier(n.P, n.v.src)])
                     ELSE P} |->
            IF P1.err # "" THEN P1
            ELSE skipParams(IF peekT(P1, "Comma", 0) THEN lexConsume(P1) ELSE P1)])
    ELSE P

\* the brace-counting loop that skips a method body in the first pass
RECURSIVE skipBody(_, _)
skipBody(P, braceDepth) ==
  IF braceDepth > 0 /\ lexPeek(P, 0).type # "EndOfFile"
    THEN skipBody(lexConsume(P),
                  CASE lexPeek(P, 0).type = "LBrace" -> braceDepth + 1
                    [] lexPeek(P, 0).type = "RBrace" -> braceDepth - 1
                    [] OTHER -> braceDepth)
    ELSE P

\* the first pass of Parser::parseClass over the class body:
\* [P, v = the local map `members`]
RECURSIVE classFirstPass(_, _)
classFirstPass(P, members) ==
  IF P.err # "" THEN R(P, members)
  ELSE IF lexPeek(P, 0).type \in {"EndOfFile", "RBrace"} THEN R(P, members)
  ELSE With([ty \in {parseType(P)} |->
       With([n \in {expect(ty.P, "Identifier")} |->
          IF n.P.err # "" THEN R(n.P, members)
          ELSE With([P1 \in {validateIdentifier(n.P, n.v.src)} |->
            IF P1.err # "" THEN R(P1, members)
            ELSE IF ~peekT(P1, "LParen", 0)
              THEN With([c \in {expect(P1, "Semi")} |->
                   IF c.P.err # "" THEN R(c.P, members)
                   ELSE classFirstPass(
                          [c.P EXCEPT !.declared = Append(c.P.declared,
                                        [cls |-> c.P.className, member |-> n.v.src])],
                          MapAssign(members, n.v.src, ty.v))])
              ELSE \* skip functions
                   With([c \in {expect(skipParams(expect(P1, "LParen").P), "RParen")} |->
                   IF c.P.err # "" THEN R(c.P, members)
                   ELSE IF peekT(c.P, "LBrace", 0)
                     THEN classFirstPass(skipBody(lexConsume(c.P), 1), members)
                     ELSE classFirstPass(expect(c.P, "Semi").P, members)])])])])

\* ClassNode::addMembers: std::map::insert of a range keeps existing keys
addMembers(decl, newMembers) ==
  [decl EXCEPT !.members =
     [x \in DOMAIN decl.members \cup DOMAIN newMembers |->
        IF x \in DOMAIN decl.members THEN decl.members[x] ELSE newMembers[x]]]

\* "create struct for data members" of Parser::parseClass
registerMembers(P, members) ==
  IF P.className # "" /\ DOMAIN members # {}
    THEN With([existingType \in {getTypeNode(P, P.className)} |->
         IF existingType # NoType
           THEN IF existingType.k = "class"
                  THEN With([i \in {
                                CHOOSE i \in 1..Len(P.classes) :
                                  P.classes[i].name = existingType.decl} |->
                          [P EXCEPT !.classes[i] = addMembers(P.classes[i], members)]])
                  ELSE P
           ELSE [P EXCEPT
                   !.classes = Append(P.classes, ClassNode(P.className, members)),
                   !.types = MapInsert(P.types, P.className,
                                       ClassReferenceNode(P.className))]])
    ELSE P

\* Parser::parseFunctions: the second pass over the class body
RECURSIVE parseFunctions(_)
parseFunctions(P) ==
  IF P.err # "" THEN P
  ELSE IF lexPeek(P, 0).type \in {"EndOfFile", "RBrace"} THEN P
  ELSE With([P0 \in {IF peekT(P, "Typedef", 0) THEN lexConsume(P) ELSE P} |->
       IF peekT(P0, "LParen", getNextTypeLength(P0) + 1)
         THEN With([f \in {parseFunction(P0)} |->
              IF f.P.err # "" THEN f.P
              ELSE parseFunctions([f.P EXCEPT !.functions = Append(f.P.functions, f.v)])])
         ELSE \* must be a class data member. skip it
              parseFunctions(
                expect(expect(parseType(P0).P, "Identifier").P, "Semi").P)])

\* a parseClass that registers the members only after the methods are parsed
parseClassMethodsFirst(P) ==
  IF P.err # "" THEN P
  ELSE With([first \in {classFirstPass(P, <<>>)} |->
       With([second \in {parseFunctions([first.P EXCEPT !.pos = P.pos])} |->
          IF first.P.err # "" THEN first.P
          ELSE registerMembers(second, first.v)])])

\* Parser::parseClass
parseClass(P) ==
  IF P.err # "" THEN P
  ELSE With([savedState \in {P.pos} |->
       With([first \in {classFirstPass(P, <<>>)} |->
          IF first.P.err # "" THEN first.P
          ELSE parseFunctions(
                 [registerMembers(first.P, first.v) EXCEPT !.pos = savedState])])])

\* Parser::insertTypeDef
insertTypeDef(P, alias, targetName) ==
  With([targetType \in {getTypeNode(P, targetName)} |->
  IF P.err # "" THEN P
  ELSE IF targetType.k = "prim"
    THEN [P EXCEPT !.types = MapInsert(P.types, alias, targetType)]
    ELSE \* a TypeNode is never a ClassNode: the second cast yields null
         reportError(P, "Invalid target type in typedef")])

\* one round of the loop of Parser::parseFile: one top-level item
parseFileItem(P) ==
  With([t \in {lexPeek(P, 0).type} |->
  CASE t = "Import" ->
         \* an import statement that processImports did not take
         expect(expect(lexConsume(P), "StringLit").P, "Semi").P
    [] t = "Typedef" ->
         With([alias \in {expect(expect(P, "Typedef").P, "Identifier")} |->
         With([target \in {expect(alias.P, "Identifier")} |->
            IF target.P.err # "" THEN target.P
            ELSE expect(insertTypeDef(target.P, alias.v.src, target.v.src), "Semi").P])])
    [] t = "Class" ->
         With([n \in {expect(lexConsume(P), "Identifier")} |->
         IF n.P.err # "" THEN n.P
         ELSE With([P1 \in {validateIdentifier(n.P, n.v.src)} |->
              With([P2 \in {IF P1.err # "" THEN P1 ELSE [P1 EXCEPT !.className = n.v.src]} |->
              With([c \in {expect(parseClass(expect(P2, "LBrace").P), "RBrace")} |->
                 IF c.P.err # "" THEN c.P ELSE [c.P EXCEPT !.className = ""]])])])])
    [] OTHER ->
         \* parse detached function (top-level function outside any class)
         With([f \in {parseFunction(P)} |->
         IF f.P.err # "" THEN f.P
         ELSE [f.P EXCEPT !.functions = Append(f.P.functions, f.v)]])])

-----------------------------------------------------------------------------
(* Parser::parse over a file system.  All files stand in one directory, so *)
(* an import path is a file name, possibly written with leading "./".      *)

\* the path of the root file
RootFile == "main"

\* std::filesystem::canonical in a directory without links: "./" is dropped
RECURSIVE canonical(_)
canonical(path) ==
  IF StartsWith(path, "./") THEN canonical(SubSeq(path, 3, Len(path))) ELSE path

\* a canonicalisation that leaves the path as written
canonicalAsWritten(path) == path

\* the key under which importedFiles_ holds a path
importKey(path) == canonical(path)

\* std::make_shared<lexer::Lexer>(sourceCode): the parser reads the tokens
\* of the text; a text the lexer rejects ends the process
newLexer(P, sourceCode) ==
  With([t \in {tokenize(sourceCode, [c |-> 0, row |-> 1, col |-> 1], <<>>)} |->
  With([P1 \in {[P EXCEPT !.toks = t.toks, !.pos = 1]} |->
     IF t.fail # "" THEN reportError(P1, t.fail) ELSE P1])])

\* the Parser constructor followed by Parser::parse up to processImports()
newParser(sourceCode, filePath) ==
  newLexer([toks |-> <<>>, pos |-> 1, file |-> filePath, className |-> "",
            functions |-> <<>>, classes |-> <<>>, types |-> PrimitiveTypes,
            scopes |-> <<>>,
            importedFiles |-> IF filePath # "" THEN {importKey(filePath)} ELSE {},
            err |-> "", built |-> <<>>, refused |-> <<>>, declared |-> <<>>, headers |-> <<>>,
            resolved |-> <<>>, introduced |-> <<>>],
           sourceCode)

ParserOff ==
  /\ files = <<>> /\ parser = <<>> /\ stack = <<>> /\ mode = "off"
  /\ trace = <<>>

CgOff ==
  /\ function = <<>> /\ ctx = <<>> /\ cgpc = "off" /\ bodyIndex = 0

\* the driver before it is started
NoMain ==
  [pc |-> "off", argv |-> <<>>, srcFile |-> "", outputFile |-> "", lowered |-> 0,
   verified |-> FALSE, diagnostic |-> "", status |-> -1, written |-> <<>>,
   created |-> {}]

MainOff == main = NoMain

Event(e, file) == [e |-> e, file |-> file]

\* one round of the loop of processImports that finds an import statement
ImportStep ==
  /\ mode = "imports" /\ parser.err = ""
  /\ peekT(parser, "Import", 0)
  /\ \E name \in {expect(lexConsume(parser), "StringLit")} :
     \E semi \in {expect(name.P, "Semi")} :
     \E importFile \in {name.v.src} :
     \E savedFileName \in {parser.file} :
     \E exists \in {canonical(importFile) \in DOMAIN files} :
     \E canonicalPath \in {importKey(importFile)} :
        IF semi.P.err # ""
          THEN /\ parser' = semi.P
               /\ UNCHANGED <<stack, mode, trace>>
        ELSE IF ~exists
          THEN /\ parser' = reportError(semi.P, "Cannot import nonexistent file")
               /\ UNCHANGED <<stack, mode, trace>>
        ELSE IF canonicalPath \in semi.P.importedFiles
          THEN /\ parser' = semi.P
               /\ trace' = Append(trace, Event("skip", canonical(importFile)))
               /\ UNCHANGED <<stack, mode>>
        ELSE /\ parser' = newLexer(
                  [semi.P EXCEPT
                     !.importedFiles = semi.P.importedFiles \cup {canonicalPath},
                     !.file = canonicalPath],
                  files[canonical(importFile)])
             /\ stack' = Append(stack, [toks |-> semi.P.toks, pos |-> semi.P.pos,
                                        file |-> savedFileName])
             /\ trace' = Append(trace, Event("open", canonical(importFile)))
             /\ UNCHANGED mode
  /\ UNCHANGED files
  /\ UNCHANGED <<lexVars, cgVars, mainVars>>

\* the loop of processImports ends at the first token that is not `import`;
\* parseFile() follows
ImportsDone ==
  /\ mode = "imports" /\ parser.err = ""
  /\ ~peekT(parser, "Import", 0)
  /\ mode' = "file"
  /\ trace' = Append(trace, Event("body", parser.file))
  /\ UNCHANGED <<files, parser, stack>>
  /\ UNCHANGED <<lexVars, cgVars, mainVars>>

\* one round of the loop of parseFile
ParseFileItem ==
  /\ mode = "file" /\ parser.err = ""
  /\ ~peekT(parser, "EndOfFile", 0)
  /\ parser' = parseFileItem(parser)
  /\ trace' = Append(trace,
                Event(IF peekT(parser, "Import", 0) THEN "import" ELSE "decl",
                      parser.file))
  /\ UNCHANGED <<files, stack, mode>>
  /\ UNCHANGED <<lexVars, cgVars, mainVars>>

\* parseFile() returns at the end of the token stream: either parse() is
\* over, or the processImports() that opened the file takes its lexer back
\* and goes on with its loop
FileDone ==
  /\ mode = "file" /\ parser.err = ""
  /\ peekT(parser, "EndOfFile", 0)
  /\ trace' = Append(trace, Event("done", parser.file))
  /\ IF stack = <<>>
       THEN /\ mode' = "done"
            /\ UNCHANGED <<parser, stack>>
       ELSE \E f \in {stack[Len(stack)]} :
            /\ parser' = [parser EXCEPT !.toks = f.toks, !.pos = f.pos,
                                        !.file = f.file]
            /\ stack' = SubSeq(stack, 1, Len(stack) - 1)
            /\ mode' = "imports"
  /\ UNCHANGED files
  /\ UNCHANGED <<lexVars, cgVars, mainVars>>

-----------------------------------------------------------------------------
(* The IR builder.  C is the record of the CodegenContext:                 *)
(*   blocks     the basic blocks of the function, in the order of their    *)
(*              creation: [name, insts]; an instruction is [op, ...]       *)
(*   insert     the block ctx.builder inserts into (its index)             *)
(*   scopes     ctx.scopes: name -> the type the variable was allocated as *)
(*   classes    the class declarations of the parser                      *)
(*   functions  the functions of the module: name -> [ret, args]           *)
(*   ret        the return type of the function that is lowered            *)
(*   err        "" or the diagnostic that ended the process                *)
(* A lowering operator takes C and yields [C, v].                          *)

VoidTy == [t |-> "void"]
IntTy(bits) == [t |-> "int", bits |-> bits]
FPTy(kind) == [t |-> "fp", kind |-> kind]
PtrTy == [t |-> "ptr"]
NoTy == [t |-> "none"]

\* a llvm::Value: its type, whether it is a constant, and for a pointer what
\* made it ("alloca", "gep" or "other") and the type it points to
Value(ty, const) == [ty |-> ty, const |-> const, from |-> "other", elem |-> NoTy]
Pointer(from, elem) == [ty |-> PtrTy, const |-> FALSE, from |-> from, elem |-> elem]
NoValue == Value(NoTy, FALSE)

CgR(C, v) == [C |-> C, v |-> v]

\* error::reportError during lowering
cgError(C, msg) == IF C.err # "" THEN C ELSE [C EXCEPT !.err = msg]

\* an instruction appended at the insertion point
emit(C, inst) ==
  IF C.err # "" THEN C
  ELSE [C EXCEPT !.blocks[C.insert].insts = Append(@, inst)]

Terminators == {"ret", "br", "condbr"}

\* llvm::BasicBlock::Create(..., parentFunction): [C, v = the new block]
createBlock(C, name) ==
  CgR([C EXCEPT !.blocks = Append(C.blocks, [name |-> name, insts |-> <<>>])],
      Len(C.blocks) + 1)

\* ctx.builder.SetInsertPoint
setInsertPoint(C, b) == [C EXCEPT !.insert = b]

\* llvm::BasicBlock::getTerminator: the last instruction when it is a
\* terminator
getTerminator(C, b) ==
  /\ Len(C.blocks[b].insts) > 0
  /\ C.blocks[b].insts[Len(C.blocks[b].insts)].op \in Terminators

\* CodegenContext::pushScope, popScope, declareVariable, lookupVariable
cgPushScope(C) == [C EXCEPT !.scopes = Append(C.scopes, <<>>)]

cgPopScope(C) ==
  IF C.scopes = <<>> THEN C
  ELSE [C EXCEPT !.scopes = SubSeq(C.scopes, 1, Len(C.scopes) - 1)]

\* a declaration that binds no slot
declareVariableNowhere(C, name, ty) == C

declareVariable(C, name, ty) ==
  [C EXCEPT !.scopes[Len(C.scopes)] = MapAssign(C.scopes[Len(C.scopes)], name, ty)]

lookupVariable(C, name) ==
  With([holders \in {{i \in 1..Len(C.scopes) : name \in DOMAIN C.scopes[i]}} |->
  IF holders = {} THEN NoTy
  ELSE C.scopes[CHOOSE i \in holders : \A j \in holders : j <= i][name]])

\* TypeNode::codeGen
RECURSIVE typeCodeGen(_)
typeCodeGen(type) ==
  CASE type.k = "prim" ->
         (CASE type.type = "Void" -> VoidTy
            [] type.type = "Bool" -> IntTy(1)
            [] type.type = "Char" -> IntTy(8)
            [] type.type = "Short" -> IntTy(16)
            [] type.type = "Int" -> IntTy(32)
            [] type.type = "Long" -> IntTy(64)
            [] type.type = "Half" -> FPTy("half")
            [] type.type = "Float" -> FPTy("float")
            [] type.type = "Double" -> FPTy("double")
            [] type.type = "Quad" -> FPTy("fp128"))
    [] type.k = "ptr" -> PtrTy
    [] type.k = "array" ->
         [t |-> "array", elem |-> typeCodeGen(type.target), length |-> type.length]
    [] type.k = "class" -> [t |-> "struct", name |-> type.decl]
    [] OTHER -> NoTy

\* a comparison of types that accepts every pair
checkTypeCompatibleAlways(t1, t2) == TRUE

\* CodegenContext::checkTypeCompatible
checkTypeCompatible(t1, t2) == t1 = t2

\* a conversion that widens every value with zext
convertIfNeededUnsigned(C, value, targetType, signed) ==
  IF C.err # "" \/ value.ty = targetType THEN CgR(C, value)
  ELSE IF value.ty.t = "int" /\ targetType.t = "int"
    THEN CgR(IF value.const THEN C
             ELSE emit(C, [op |-> IF value.ty.bits < targetType.bits THEN "zext"
                                  ELSE "trunc",
                           from |-> value.ty, to |-> targetType]),
             Value(targetType, value.const))
    ELSE CgR(C, value)

\* CodegenContext::convertIfNeeded: [C, v = the converted value]; the
\* builder folds the conversion of a constant, which adds no instruction
convertIfNeeded(C, value, targetType, signed) ==
  IF C.err # "" \/ value.ty = targetType THEN CgR(C, value)
  ELSE IF value.ty.t = "int" /\ targetType.t = "int"
    THEN With([op \in {
                   IF value.ty.bits < targetType.bits
                     THEN (IF signed THEN "sext" ELSE "zext")
                     ELSE "trunc"} |->
            CgR(IF value.const THEN C
                ELSE emit(C, [op |-> op, from |-> value.ty, to |-> targetType]),
                Value(targetType, value.const))])
    ELSE CgR(C, value)

RECURSIVE exprCodeGen(_, _)
RECURSIVE exprCodeGenLValue(_, _)
RECURSIVE argsCodeGen(_, _, _)

\* the argument loop of FunctionCall::codeGen
argsCodeGen(C, args, i) ==
  IF C.err # "" \/ i > Len(args) THEN C
  ELSE argsCodeGen(exprCodeGen(C, args[i]).C, args, i + 1)

\* ExpressionNode::codeGenLValue: [C, v = the pointer]
exprCodeGenLValue(C, e) ==
  IF C.err # "" THEN CgR(C, NoValue)
  ELSE CASE e.k = "VariableReference" ->
         With([alloca \in {lookupVariable(C, e.name)} |->
         IF alloca = NoTy THEN CgR(cgError(C, "Undefined variable"), NoValue)
         ELSE CgR(C, Pointer("alloca", alloca))])
    [] e.k = "Dref" ->
         With([ptr \in {exprCodeGenLValue(C, e.target)} |->
         IF ptr.C.err # "" THEN CgR(ptr.C, NoValue)
         ELSE IF ptr.v.ty # PtrTy
           THEN CgR(cgError(ptr.C, "Cannot dereference non-pointer type"), NoValue)
           ELSE CgR(emit(ptr.C, [op |-> "load"]), Pointer("other", NoTy))])
    [] e.k = "StructAccess" ->
         With([structPtr \in {exprCodeGenLValue(C, e.structExpr)} |->
         With([ty \in {typeCodeGen(e.type)} |->
         With([decl \in {
                     C.classes[CHOOSE i \in 1..Len(C.classes) :
                                 C.classes[i].name = e.type.decl]} |->
            IF structPtr.C.err # "" THEN CgR(structPtr.C, NoValue)
            ELSE IF ty.t # "struct"
              THEN CgR(cgError(structPtr.C, "Expected struct type but got different type"),
                       NoValue)
            ELSE IF e.memberName \notin DOMAIN decl.members
              THEN CgR(cgError(structPtr.C, "Could not find index of member"), NoValue)
            ELSE CgR(emit(structPtr.C,
                          [op |-> "gep", index |-> lookupMemberIndex(decl, e.memberName),
                           struct |-> decl.name, member |-> e.memberName]),
                     Pointer("gep", typeCodeGen(decl.members[e.memberName])))])])])
    [] e.k = "ArrayAccess" ->
         With([arrayPtr \in {exprCodeGenLValue(C, e.arrayExpr)} |->
         With([indexVal \in {exprCodeGen(arrayPtr.C, e.indexExpr)} |->
         With([ty \in {typeCodeGen(e.type)} |->
            IF indexVal.C.err # "" THEN CgR(indexVal.C, NoValue)
            ELSE IF indexVal.v.ty.t # "int"
              THEN CgR(cgError(indexVal.C, "Array index must be an integer type"), NoValue)
            ELSE IF ty.t # "array"
              THEN CgR(cgError(indexVal.C, "Expected array type but got different type"),
                       NoValue)
            ELSE CgR(emit(indexVal.C, [op |-> "gep"]), Pointer("gep", ty.elem))])])])
    [] e.k = "PtrIndexAccess" ->
         With([ptrVal \in {exprCodeGen(C, e.ptrExpr)} |->
         With([indexVal \in {exprCodeGen(ptrVal.C, e.indexExpr)} |->
            IF ptrVal.C.err # "" THEN CgR(ptrVal.C, NoValue)
            ELSE IF ptrVal.v.ty # PtrTy
              THEN CgR(cgError(ptrVal.C, "Cannot index into non-pointer type"), NoValue)
            ELSE IF indexVal.C.err # "" THEN CgR(indexVal.C, NoValue)
            ELSE IF indexVal.v.ty.t # "int"
              THEN CgR(cgError(indexVal.C, "Pointer index must be an integer type"), NoValue)
            ELSE \* CreateGEP(type_->target()->codeGen(ctx), ptrVal, {indexVal})
                 CgR(emit(indexVal.C,
                          [op |-> "gep", elem |-> typeCodeGen(e.type.target)]),
                     Pointer("gep", typeCodeGen(e.type.target)))])])
    [] OTHER ->
         \* ExpressionNode::codeGenLValue of a node that is no lvalue
         CgR(cgError(C, "Expression is not an lvalue"), NoValue)

\* ExpressionNode::codeGen: [C, v = the value]
exprCodeGen(C, e) ==
  IF C.err # "" THEN CgR(C, NoValue)
  ELSE CASE e.k = "VariableReference" ->
         With([alloca \in {lookupVariable(C, e.name)} |->
         IF alloca = NoTy THEN CgR(cgError(C, "Undefined variable"), NoValue)
         ELSE CgR(emit(C, [op |-> "load"]), Value(alloca, FALSE))])
    [] e.k = "IntLiteral" -> CgR(C, Value(IntTy(32), TRUE))
    [] e.k = "FloatLiteral" -> CgR(C, Value(FPTy("float"), TRUE))
    [] e.k = "StringLiteral" -> CgR(C, Value(PtrTy, TRUE))
    [] e.k = "Dref" ->
         With([ptr \in {exprCodeGen(C, e.target)} |->
         IF ptr.C.err # "" THEN CgR(ptr.C, NoValue)
         ELSE IF ptr.v.ty # PtrTy
           THEN CgR(cgError(ptr.C, "Cannot dereference non-pointer type"), NoValue)
           ELSE CgR(emit(ptr.C, [op |-> "load"]), Value(typeCodeGen(e.derivedType), FALSE))])
    [] e.k = "AddressOf" -> exprCodeGenLValue(C, e.target)
    [] e.k \in {"StructAccess", "ArrayAccess", "PtrIndexAccess"} ->
         With([elemPtr \in {exprCodeGenLValue(C, e)} |->
         IF elemPtr.C.err # "" THEN CgR(elemPtr.C, NoValue)
         ELSE CgR(emit(elemPtr.C, [op |-> "load"]), Value(elemPtr.v.elem, FALSE))])
    [] e.k = "FunctionCall" ->
         IF e.name \notin DOMAIN C.functions
           THEN CgR(cgError(C, "Unknown function"), NoValue)
         ELSE IF C.functions[e.name].args # Len(e.args)
           THEN CgR(cgError(C, "Function expects another number of arguments"), NoValue)
         ELSE CgR(emit(argsCodeGen(C, e.args, 1), [op |-> "call", callee |-> e.name]),
                  Value(C.functions[e.name].ret, FALSE))
    [] e.k = "BinaryOperation" ->
         With([L \in {exprCodeGen(C, e.L)} |->
         With([R0 \in {exprCodeGen(L.C, e.R)} |->
         With([Rv \in {convertIfNeeded(R0.C, R0.v, L.v.ty, e.signed)} |->
         LET ints == L.v.ty.t = "int" /\ Rv.v.ty.t = "int"
             const == L.v.const /\ Rv.v.const
             arith(op) == CgR(IF const THEN Rv.C
                              ELSE emit(Rv.C, [op |-> op, ty |-> L.v.ty]),
                              Value(L.v.ty, const))
             compare(op) == CgR(IF const THEN Rv.C
                                ELSE emit(Rv.C, [op |-> op, ty |-> L.v.ty]),
                                Value(IntTy(1), const))
         IN IF Rv.C.err # "" THEN CgR(Rv.C, NoValue)
            ELSE IF e.opType \in {"Add", "Subtract"} /\ L.v.ty = PtrTy
              THEN IF Rv.v.ty.t # "int"
                     THEN CgR(cgError(Rv.C, "Cannot add non-integer to pointer"), NoValue)
                     ELSE \* CreateGEP(L->getType(), L, R), with CreateNeg(R)
                          \* for the subtraction
                          CgR(emit(IF e.opType = "Subtract" /\ ~Rv.v.const
                                     THEN emit(Rv.C, [op |-> "neg", ty |-> Rv.v.ty])
                                     ELSE Rv.C,
                                   [op |-> "gep", elem |-> L.v.ty]),
                              Value(PtrTy, FALSE))
            ELSE IF e.opType = "Add" /\ Rv.v.ty = PtrTy
              THEN IF L.v.ty.t # "int"
                     THEN CgR(cgError(Rv.C, "Cannot add non-integer to pointer"), NoValue)
                     ELSE \* CreateGEP(R->getType(), R, L)
                          CgR(emit(Rv.C, [op |-> "gep", elem |-> Rv.v.ty]),
                              Value(PtrTy, FALSE))
            ELSE IF ~ints
              THEN CgR(cgError(Rv.C, "Operation requires integer operands"), NoValue)
            ELSE CASE e.opType = "Add" -> arith("add")
                   [] e.opType = "Subtract" -> arith("sub")
                   [] e.opType = "Multiply" -> arith("mul")
                   [] e.opType = "Divide" -> arith("udiv")
                   [] e.opType = "Less" -> compare("icmp ult")
                   [] e.opType = "More" -> compare("icmp ugt")
                   [] e.opType = "Equal" -> compare("icmp eq")
                   [] OTHER -> CgR(cgError(Rv.C, "Unexpected binary operation type"),
                                   NoValue)])])])
    [] OTHER -> CgR(cgError(C, "Failed to generate expression"), NoValue)

RECURSIVE stmtCodeGen(_, _)
RECURSIVE stmtsCodeGen(_, _, _)

\* the loops `for (auto &stmt : body) stmt->codeGen(ctx)` of If and While
stmtsCodeGen(C, stmts, i) ==
  IF C.err # "" \/ i > Len(stmts) THEN C
  ELSE stmtsCodeGen(stmtCodeGen(C, stmts[i]), stmts, i + 1)

\* "create terminator if none exists" of If::codeGen
branchIfOpen(C, target) ==
  IF C.err = "" /\ ~getTerminator(C, C.insert)
    THEN emit(C, [op |-> "br", to |-> <<target>>])
    ELSE C

\* StatementNode::codeGen
stmtCodeGen(C, s) ==
  IF C.err # "" THEN C
  ELSE CASE s.k = "VariableDeclaration" ->
         With([type \in {typeCodeGen(s.type)} |->
         With([C1 \in {emit(C, [op |-> "alloca"])} |->
            IF s.initialValue = NoExpr THEN declareVariable(C1, s.name, type)
            ELSE With([init \in {exprCodeGen(C1, s.initialValue)} |->
                 With([converted \in {
                                  convertIfNeeded(init.C, init.v, type,
                                                  s.initialValue.signed)} |->
                    IF converted.C.err # "" THEN converted.C
                    ELSE IF checkTypeCompatible(type, converted.v.ty)
                      THEN declareVariable(emit(converted.C, [op |-> "store"]),
                                           s.name, type)
                      ELSE cgError(converted.C,
                                   "Cannot initialize variable with incompatible type")])])])])
    [] s.k = "AssignmentStatement" ->
         With([ptr \in {exprCodeGenLValue(C, s.target)} |->
         With([val \in {exprCodeGen(ptr.C, s.value)} |->
         With([targetType \in {
                           IF ptr.v.from \in {"alloca", "gep"} THEN ptr.v.elem
                           ELSE val.v.ty} |->
         With([converted \in {convertIfNeeded(val.C, val.v, targetType, s.value.signed)} |->
            emit(converted.C, [op |-> "store"])])])])])
    [] s.k = "Return" ->
         IF s.value # NoExpr
           THEN With([value \in {exprCodeGen(C, s.value)} |->
                With([converted \in {convertIfNeeded(value.C, value.v, C.ret, s.value.signed)} |->
                   IF converted.C.err # "" THEN converted.C
                   ELSE IF ~checkTypeCompatible(C.ret, converted.v.ty)
                     THEN cgError(converted.C,
                                  "Return value type does not match function return type")
                     ELSE emit(converted.C,
                               [op |-> "ret", to |-> <<>>, ty |-> converted.v.ty])])])
           ELSE IF C.ret # VoidTy
                  THEN cgError(C, "Non-void function must return a value")
                  ELSE emit(C, [op |-> "ret", to |-> <<>>, ty |-> VoidTy])
    [] s.k = "If" ->
         With([thenBB \in {createBlock(C, "then")} |->
         With([elseBB \in {
                       IF s.hasFalseBody THEN createBlock(thenBB.C, "else")
                       ELSE CgR(thenBB.C, 0)} |->
         With([mergeBB \in {createBlock(elseBB.C, "ifcont")} |->
         With([condValue \in {exprCodeGen(mergeBB.C, s.condition)} |->
            IF condValue.C.err # "" THEN condValue.C
            ELSE IF condValue.v.ty.t # "int"
              THEN cgError(condValue.C, "If statement condition must be integer type")
            ELSE With([C1 \in {
                           emit(condValue.C,
                                [op |-> "condbr",
                                 to |-> <<thenBB.v, IF s.hasFalseBody THEN elseBB.v
                                                    ELSE mergeBB.v>>])} |->
                 With([C2 \in {
                           branchIfOpen(
                             stmtsCodeGen(setInsertPoint(C1, thenBB.v), s.trueBody, 1),
                             mergeBB.v)} |->
                 With([C3 \in {
                           IF s.hasFalseBody
                             THEN branchIfOpen(
                                    stmtsCodeGen(setInsertPoint(C2, elseBB.v),
                                                 s.falseBody, 1),
                                    mergeBB.v)
                             ELSE C2} |->
                    IF C3.err # "" THEN C3 ELSE setInsertPoint(C3, mergeBB.v)])])])])])])])
    [] s.k = "While" ->
         With([condBB \in {createBlock(C, "cond")} |->
         With([bodyBB \in {createBlock(condBB.C, "body")} |->
         With([exitBB \in {createBlock(bodyBB.C, "exit")} |->
         With([C1 \in {
                   setInsertPoint(emit(exitBB.C, [op |-> "br", to |-> <<condBB.v>>]),
                                  condBB.v)} |->
         With([condValue \in {exprCodeGen(C1, s.condition)} |->
            IF condValue.C.err # "" THEN condValue.C
            ELSE IF condValue.v.ty.t # "int"
              THEN cgError(condValue.C, "While statement condition must be integer type")
            ELSE With([C2 \in {
                           emit(condValue.C,
                                [op |-> "condbr", to |-> <<bodyBB.v, exitBB.v>>])} |->
                 With([C3 \in {stmtsCodeGen(setInsertPoint(C2, bodyBB.v), s.body, 1)} |->
                 With([C4 \in {emit(C3, [op |-> "br", to |-> <<condBB.v>>])} |->
                    IF C4.err # "" THEN C4 ELSE setInsertPoint(C4, exitBB.v)])])])])])])])])
    [] s.k = "ExpressionStatement" -> exprCodeGen(C, s.expression).C
    [] OTHER -> C

\* "copy parameters to stack variables" of generateFunctionBody
RECURSIVE paramsCodeGen(_, _, _)
paramsCodeGen(C, params, i) ==
  IF i > Len(params) THEN C
  ELSE paramsCodeGen(
         declareVariable(emit(emit(C, [op |-> "alloca"]), [op |-> "store"]),
                         params[i].name, typeCodeGen(params[i].type)),
         params, i + 1)

\* a body loop that goes on after a terminator
bodyLoopNeverBreaks(C) == FALSE

\* the test that ends the body loop of generateFunctionBody
bodyLoopBreaks(C) == getTerminator(C, C.insert)

\* the CodegenContext of a module before any function is lowered
newContext(classes) ==
  [blocks |-> <<>>, insert |-> 0, scopes |-> <<>>, classes |-> classes,
   namedStructs |->
     [n \in {classes[i].name : i \in 1..Len(classes)} |->
        memberNames(classes[CHOOSE i \in 1..Len(classes) : classes[i].name = n])],
   functions |-> <<>>, ret |-> VoidTy, err |-> ""]

-----------------------------------------------------------------------------
(* The programs the parser is run on.                                      *)

\* the sequences of at most n different elements of S
RECURSIVE SeqsNoRep(_, _)
SeqsNoRep(S, n) ==
  IF n = 0 THEN {<<>>}
  ELSE With([shorter \in {SeqsNoRep(S, n - 1)} |->
       shorter \cup UNION {{Append(q, x) : x \in S \ {q[i] : i \in 1..Len(q)}} :
                             q \in {r \in shorter : Len(r) = n - 1}}])

\* the sequences of at most n elements of S
RECURSIVE SeqsUpTo(_, _)
SeqsUpTo(S, n) ==
  IF n = 0 THEN {<<>>}
  ELSE With([shorter \in {SeqsUpTo(S, n - 1)} |->
       shorter \cup {Append(q, x) : q \in {r \in shorter : Len(r) = n - 1},
                                    x \in S}])

\* the texts of a sequence, one after the other
RECURSIVE Concat(_)
Concat(texts) ==
  IF texts = <<>> THEN "" ELSE Head(texts) \o Concat(Tail(texts))

MemberPool == {"a", "b", "c"}

MemberText(names) == Concat([i \in 1..Len(names) |-> "int " \o names[i] \o "; "])

\* class C with the members ms, a method m written after the first k of
\* them, with the parameter text ps, that returns the value r
ClassText(ms, k, ps, r) ==
  "class C { " \o MemberText(SubSeq(ms, 1, k))
    \o "int m(" \o ps \o ") { return " \o r \o "; } "
    \o MemberText(SubSeq(ms, k + 1, Len(ms))) \o "}"

ClassPrograms ==
  UNION {{ClassText(ms, k, ps, r) :
            k \in 0..Len(ms),
            ps \in {"", "int p", "uint a", "int p, uint a"},
            r \in MemberPool \cup {"1", "p"}} :
         ms \in SeqsNoRep(MemberPool, MaxMembers)}

\* class C opened twice, with the members first and then with the members
\* more and a method that returns a member of the first opening
ReopenPrograms ==
  UNION {{"class C { " \o MemberText(first) \o "} class C { " \o MemberText(more)
            \o "int m() { return " \o first[1] \o "; } }" :
            more \in SeqsNoRep(MemberPool \ {first[i] : i \in 1..Len(first)},
                               MaxMembers) \ {<<>>}} :
         first \in SeqsNoRep(MemberPool, MaxMembers) \ {<<>>}}

ExprText(operands, operators) ==
  Concat([i \in 1..Len(operands) |->
            IF i = 1 THEN operands[i] ELSE operators[i - 1] \o operands[i]])

\* a function that returns an expression over a signed variable, an
\* unsigned variable and a literal
ExprPrograms ==
  {"int f(int a, uint u) { return " \o ExprText(operands, operators) \o "; }" :
     operands \in SeqsUpTo({"a", "u", "1"}, MaxOperands) \ {<<>>},
     operators \in [1..(MaxOperands - 1) -> {"+", "*", "<"}]}

ImportText(paths) ==
  Concat([i \in 1..Len(paths) |-> "import \"" \o paths[i] \o "\"; "])

\* a root file and two more files that import one another, the root also
\* after its first declaration
ImportProjects ==
  {[main |-> ImportText(m) \o "void fm(); " \o ImportText(late) \o "void gm();",
    a |-> ImportText(inA) \o "void fa();",
    b |-> ImportText(inB) \o "void fb();"] :
     m \in SeqsUpTo({"a", "./a", "b"}, MaxImports),
     late \in {<<>>, <<"b">>},
     inA \in {<<>>, <<"b">>, <<"main">>, <<"./b", "b">>},
     inB \in {<<>>, <<"a">>, <<"zz">>}}

\* a function that declares names in its parameter list, in its body and
\* inside the blocks of its body, and uses a name after them
ScopePrograms ==
  {"int f(" \o ps \o ") { " \o first \o second \o "return " \o r \o "; }" :
     ps \in {"int x", "int x, char x"},
     first \in {"", "int y; ", "char x; ", "if (x) { int y; y = 1; } ",
                "while (x) { int z; z = x; } "},
     second \in {"", "y = 2; ", "char y; "},
     r \in {"x", "y", "z"}}

\* functions declared and defined under names that repeat or differ
FunctionPrograms ==
  {Concat(fs) \o "int main() { return f(); }" :
     fs \in SeqsUpTo({"int f(); ", "char f(); ", "int f() { return 1; } ",
                      "int g(); "}, MaxBody)}

\* the arms of an if statement as written, with the statements they hold
ThenArms ==
  {[text |-> "", stmts |-> <<>>],
   [text |-> "return 1; ", stmts |-> <<Return(IntLiteral(1))>>],
   [text |-> "x = 1; return 1; ",
    stmts |-> <<AssignmentStatement(VariableReference("x", TRUE), IntLiteral(1)),
                Return(IntLiteral(1))>>]}

ElseArms ==
  {[text |-> "", has |-> FALSE, stmts |-> <<>>],
   [text |-> "else { return 2; } ", has |-> TRUE, stmts |-> <<Return(IntLiteral(2))>>],
   [text |-> "else { } ", has |-> TRUE, stmts |-> <<>>]}

\* else arms written without the opening brace
OpenElseArms == {"else return 2; } ", "else } "}

IfText(then, arm) ==
  "int f(int x) { if (x) { " \o then \o "} " \o arm \o "return 3; }"

IfPrograms ==
  {IfText(t.text, a.text) : t \in ThenArms, a \in ElseArms}
    \cup {IfText(t.text, a) : t \in ThenArms, a \in OpenElseArms}

\* integer literals as written and the value each one denotes
Literals ==
  {[text |-> "12", value |-> 12], [text |-> "7", value |-> 7],
   [text |-> "0x10", value |-> 16], [text |-> "0X1f", value |-> 31]}

LiteralText(lit, use) ==
  IF use = "array" THEN "int f() { int[" \o lit \o "] a; return 1; }"
  ELSE IF use = "negative" THEN "int f() { return -" \o lit \o "; }"
  ELSE "int f() { return " \o lit \o "; }"

LiteralPrograms ==
  {LiteralText(lit.text, use) :
     lit \in Literals, use \in {"array", "negative", "expression"}}

\* names with and without an underscore in each position that names something
NamePool == {"ab", "a_b", "_a"}

NameText(position, n) ==
  CASE position = "variable" -> "int f() { int " \o n \o "; return 1; }"
    [] position = "parameter" -> "int f(int " \o n \o ") { return 1; }"
    [] position = "function" -> "int " \o n \o "() { return 1; }"
    [] position = "method" -> "class C { int " \o n \o "() { return 1; } }"
    [] position = "class" -> "class " \o n \o " { int m; }"
    [] position = "member" -> "class C { int " \o n \o "; }"
    [] position = "alias" -> "typedef " \o n \o " int; " \o n \o " f() { return 1; }"
    [] position = "call" -> "int ab(); int f() { return " \o n \o "(); }"

NamePositions ==
  {"variable", "parameter", "function", "method", "class", "member", "alias",
   "call"}

NamePrograms == {NameText(position, n) : position \in NamePositions, n \in NamePool}

\* typedefs of a primitive type, of a class, of an earlier alias and of a
\* name that is no type, each followed by uses of the alias
RegisteredTargets == {"int", "uchar", "C", "B"}

TypedefTargets == RegisteredTargets \cup {"nope", "A"}

TypedefText(target) ==
  "class C { int m; } typedef B char; typedef A " \o target \o "; "
    \o "A f(A x) { A y; ptr A p; A[2] q; return x; }"

TypedefPrograms == {TypedefText(target) : target \in TypedefTargets}

\* the binary operators as written, with the node each one gives and its
\* level: a higher level binds tighter
Operators ==
  {[text |-> "*", op |-> "Multiply", level |-> 4],
   [text |-> "/", op |-> "Divide", level |-> 4],
   [text |-> "+", op |-> "Add", level |-> 3],
   [text |-> "-", op |-> "Subtract", level |-> 3],
   [text |-> "<", op |-> "Less", level |-> 2],
   [text |-> ">", op |-> "More", level |-> 2],
   [text |-> "==", op |-> "Equal", level |-> 1]}

\* the names of the operands, in the order they are written
TermNames == <<"a", "b", "c", "d", "e">>

\* the expression a op1 b op2 c ... of the operators ops
TermText(ops) ==
  Concat([i \in 1..(Len(ops) + 1) |->
            IF i = 1 THEN TermNames[i]
            ELSE " " \o ops[i - 1].text \o " " \o TermNames[i]])

\* the expression in front of each of the three terminators: `;` of a
\* return, `)` of a condition, `,` of an argument list
PrecText(place, ops) ==
  "int g(int x, int y); int f(int a, int b, int c, int d, int e) { "
    \o (CASE place = "return" -> "return " \o TermText(ops) \o "; "
          [] place = "condition" -> "if (" \o TermText(ops) \o ") { } return 0; "
          [] place = "argument" -> "return g(" \o TermText(ops) \o ", a); ")
    \o "}"

\* the longest expressions are written with one operator of each level and
\* both of the additive level, the shorter ones with every operator
LongOperators == {o \in Operators : o.text \in {"*", "+", "-", "<", "=="}}

PrecOperators ==
  SeqsUpTo(LongOperators, MaxTerms - 1) \cup SeqsUpTo(Operators, MaxTerms - 2)

PrecPrograms ==
  {PrecText(place, ops) : place \in {"return", "condition", "argument"},
                          ops \in PrecOperators}

\* programs with an identifier that names no type where a type stands: as
\* a return type, a parameter type, a member type and in a declaration
UntypedPrograms ==
  {"f();", "f() { }", "ptr f();", "nope f();",
   "int f(x);", "int f(x) { return 1; }", "int f(int a, x);", "int f(nope x);",
   "class C { x; }", "class C { int a; x; }", "class C { nope x; }",
   "class C { int a; m() { } }",
   "int f() { nope x; return 1; }", "int f() { ptr nope x; return 1; }"}

\* what stands after the header `int f()`: a body, `;`, or nothing
HeaderEnds == {" { return 1; }", ";", ""}

\* the declarations that follow f, with what each one declares
Followers ==
  {[text |-> "int g();", class |-> FALSE, type |-> PrimitiveTypes["int"]],
   [text |-> "uint g() { return 2; }", class |-> FALSE, type |-> PrimitiveTypes["uint"]],
   [text |-> "ptr int g();", class |-> FALSE,
    type |-> PointerTypeNode(PrimitiveTypes["int"])],
   [text |-> "class g { int a; }", class |-> TRUE, type |-> NoType]}

HeaderText(end, follower) == "int f()" \o end \o " " \o follower.text

HeaderPrograms == {HeaderText(end, d) : end \in HeaderEnds, d \in Followers}

\* the receivers of a method call in f, with the node each one gives: an
\* object of class C and a pointer to one, which is dereferenced once
Receivers ==
  {[text |-> "x", expr |-> VariableReference("x", FALSE)],
   [text |-> "p", expr |-> Dref(VariableReference("p", FALSE),
                                ClassReferenceNode("C"), FALSE)]}

\* the arguments written in a method call, with the node each one gives
MethodArgs ==
  {[text |-> "i", expr |-> VariableReference("i", TRUE)],
   [text |-> "7", expr |-> IntLiteral(7)],
   [text |-> "u", expr |-> VariableReference("u", FALSE)]}

\* the arguments separated by commas
RECURSIVE ArgText(_)
ArgText(args) ==
  IF args = <<>> THEN ""
  ELSE args[1].text \o (IF Len(args) > 1 THEN ", " ELSE "") \o ArgText(Tail(args))

\* a class C with the method m returning ret, and a function f that calls
\* the method named `called` on the receiver
MethodText(ret, receiver, called, args) ==
  "class C { int a; " \o ret \o " m(int v, int w) { return 1; } } "
    \o "int f(C x, ptr C p, int i, uint u) { return "
    \o receiver.text \o "." \o called \o "(" \o ArgText(args) \o "); }"

MethodPrograms ==
  {MethodText(ret, receiver, called, args) :
     ret \in {"int", "uint"}, receiver \in Receivers, called \in {"m", "n"},
     args \in SeqsUpTo(MethodArgs, MaxBody)}
    \cup {"class C { int a; int m() { return this.n(); } int n() { return 1; } }"}

Projects ==
  {[main |-> text] :
     text \in ClassPrograms \cup ReopenPrograms \cup ExprPrograms \cup PrecPrograms
                \cup UntypedPrograms \cup HeaderPrograms \cup MethodPrograms
                \cup ScopePrograms \cup FunctionPrograms \cup IfPrograms
                \cup LiteralPrograms \cup NamePrograms \cup TypedefPrograms}
    \cup ImportProjects

-----------------------------------------------------------------------------
(* The lexer as a state machine: a caller that peeks, consumes, saves and  *)
(* restores in any order.                                                  *)

NoState == [srcCursor |-> -1]
NoTok == Tok("None", "", 0, 0)
StartPos == [c |-> 0, row |-> 1, col |-> 1]
Here == [c |-> srcCursor, row |-> row, col |-> col]

\* source texts the lexer is run on
LexSources ==
  { "ab 12;",
    "x=1.5+y",
    "if(a){\n b=2;\n}",
    "/*c*/ ptr int p; //t\n q",
    "\"s\\n\" f(3.) /",
    "a /* open",
    "\"open",
    "a # b",
    "a_b 7" }

\* obs extended with a first observation of token idx
Observe(o, idx, tok) ==
  IF idx \in DOMAIN o THEN o ELSE [i \in DOMAIN o \cup {idx} |->
                                     IF i = idx THEN tok ELSE o[i]]

LexIdle ==
  /\ srcCursor = 0 /\ lookAhead = <<>> /\ row = 1 /\ col = 1
  /\ saved = NoState /\ lexAlive = TRUE
  /\ pos = 0 /\ savedPos = 0 /\ obs = <<>>
  /\ last = [op |-> "none", idx |-> 0, tok |-> NoTok]
  /\ restored = FALSE

LexInit == src \in LexSources /\ LexIdle /\ ParserOff /\ CgOff /\ MainOff

LexDie ==
  /\ lexAlive' = FALSE
  /\ last' = [op |-> "exit", idx |-> pos, tok |-> NoTok]
  /\ UNCHANGED <<src, srcCursor, lookAhead, row, col, saved, pos, savedPos,
                 obs, restored>>

Peek(offset) ==
  /\ lexAlive
  /\ \E r \in {peek(src, Here, lookAhead, offset)} :
     IF r.fail # "" THEN LexDie
     ELSE /\ srcCursor' = r.L.c /\ row' = r.L.row /\ col' = r.L.col
          /\ lookAhead' = r.la
          /\ last' = [op |-> "peek", idx |-> pos + offset, tok |-> r.tok]
          /\ obs' = IF restored THEN obs ELSE Observe(obs, pos + offset, r.tok)
          /\ UNCHANGED <<src, saved, lexAlive, pos, savedPos, restored>>
  /\ UNCHANGED <<parserVars, cgVars, mainVars>>

Consume ==
  /\ lexAlive
  /\ pos < MaxTokens
  /\ \E r \in {consume(src, Here, lookAhead)} :
     IF r.fail # "" THEN LexDie
     ELSE /\ srcCursor' = r.L.c /\ row' = r.L.row /\ col' = r.L.col
          /\ lookAhead' = r.la
          /\ last' = [op |-> "consume", idx |-> pos, tok |-> r.tok]
          /\ obs' = IF restored THEN obs ELSE Observe(obs, pos, r.tok)
          /\ pos' = pos + 1
          /\ UNCHANGED <<src, saved, lexAlive, savedPos, restored>>
  /\ UNCHANGED <<parserVars, cgVars, mainVars>>

SaveState ==
  /\ lexAlive
  /\ saved' = saveState
  /\ savedPos' = pos
  /\ obs' = <<>>
  /\ restored' = FALSE
  /\ last' = [op |-> "save", idx |-> pos, tok |-> NoTok]
  /\ UNCHANGED <<src, srcCursor, lookAhead, row, col, lexAlive, pos>>
  /\ UNCHANGED <<parserVars, cgVars, mainVars>>

RestoreState ==
  /\ lexAlive
  /\ saved # NoState
  /\ \E r \in {restoreState(saved)} :
     /\ srcCursor' = r.srcCursor /\ lookAhead' = r.lookAhead
     /\ row' = r.row /\ col' = r.col
  /\ pos' = savedPos
  /\ restored' = TRUE
  /\ last' = [op |-> "restore", idx |-> savedPos, tok |-> NoTok]
  /\ UNCHANGED <<src, saved, lexAlive, savedPos, obs>>
  /\ UNCHANGED <<parserVars, cgVars, mainVars>>

LexNext ==
  \/ \E offset \in 0..MaxPeek : Peek(offset)
  \/ Consume
  \/ SaveState
  \/ RestoreState

LexSpec == LexInit /\ [][LexNext]_vars

-----------------------------------------------------------------------------
(* The parser as a state machine.                                          *)

ParserInit ==
  /\ files \in Projects
  /\ parser = newParser(files[RootFile], RootFile)
  /\ stack = <<>>
  /\ mode = "imports"
  /\ trace = <<Event("open", RootFile)>>
  /\ src = "" /\ LexIdle /\ CgOff /\ MainOff

ParserNext ==
  \/ ImportStep
  \/ ImportsDone
  \/ ParseFileItem
  \/ FileDone

Spec == ParserInit /\ [][ParserNext]_vars

-----------------------------------------------------------------------------
(* The lowering of a function as a state machine.                          *)

\* Parser::parseFile: the whole loop
RECURSIVE parseFile(_)
parseFile(P) ==
  IF P.err # "" \/ peekT(P, "EndOfFile", 0) THEN P ELSE parseFile(parseFileItem(P))

\* statements of function bodies; the else branch is written as the parser
\* reads it
InnerBlocks ==
  {"", "int x; ", "return; ", "return 1; ", "return 1; return 1; ",
   "while (1) { return 1; } "}

ElseBlocks == {"int x; ", "return 1; "}

Statements ==
  {"return; ", "return 1; ", "int x; "}
    \cup {"if (1) { " \o b \o "} " : b \in InnerBlocks}
    \cup {"if (1) { " \o b \o "} else " \o c \o "} " : b \in ElseBlocks, c \in ElseBlocks}
    \cup {"while (x < 1) { " \o b \o "} " : b \in InnerBlocks}

\* the sum of two parameters of signed integer types
AddText(lt, rt) ==
  "int add(" \o lt \o " a, " \o rt \o " b) { int r = a + b; return r; }"

AddPrograms == {AddText(lt, rt) : lt \in {"char", "short", "int"},
                                  rt \in {"char", "short", "int"}}

\* the return types of the functions that return, with the type each one
\* is lowered to
ReturnTypes ==
  {[text |-> "void", ty |-> VoidTy], [text |-> "char", ty |-> IntTy(8)],
   [text |-> "int", ty |-> IntTy(32)], [text |-> "long", ty |-> IntTy(64)],
   [text |-> "float", ty |-> FPTy("float")], [text |-> "ptr int", ty |-> PtrTy]}

\* what is returned, with the type its value has: nothing, a literal, or one
\* of the parameters
ReturnValues ==
  {[text |-> "", ty |-> NoTy], [text |-> " 1", ty |-> IntTy(32)],
   [text |-> " c", ty |-> IntTy(8)], [text |-> " i", ty |-> IntTy(32)],
   [text |-> " u", ty |-> IntTy(32)], [text |-> " l", ty |-> IntTy(64)],
   [text |-> " x", ty |-> FPTy("float")], [text |-> " p", ty |-> PtrTy]}

ReturnText(ret, value) ==
  ret.text \o " r(char c, int i, uint u, long l, float x, ptr int p) { return"
    \o value.text \o "; }"

ReturnPrograms == {ReturnText(ret, value) : ret \in ReturnTypes, value \in ReturnValues}

\* the integer types of the operands of a binary operation
OperandTypes ==
  {[text |-> "char", bits |-> 8, signed |-> TRUE],
   [text |-> "int", bits |-> 32, signed |-> TRUE],
   [text |-> "long", bits |-> 64, signed |-> TRUE],
   [text |-> "uchar", bits |-> 8, signed |-> FALSE],
   [text |-> "uint", bits |-> 32, signed |-> FALSE],
   [text |-> "ulong", bits |-> 64, signed |-> FALSE]}

\* the binary operators, with the instruction each one is lowered to
BinaryOps ==
  {[text |-> "+", inst |-> "add", arith |-> TRUE],
   [text |-> "-", inst |-> "sub", arith |-> TRUE],
   [text |-> "*", inst |-> "mul", arith |-> TRUE],
   [text |-> "/", inst |-> "udiv", arith |-> TRUE],
   [text |-> "<", inst |-> "icmp ult", arith |-> FALSE],
   [text |-> ">", inst |-> "icmp ugt", arith |-> FALSE],
   [text |-> "==", inst |-> "icmp eq", arith |-> FALSE]}

\* a OP b of a left operand of type lt and a right operand of type rt: the
\* result of an arithmetic operator is returned, that of a comparison is the
\* condition of an if statement
BinaryText(lt, rt, o) ==
  IF o.arith
    THEN lt.text \o " bin(" \o lt.text \o " a, " \o rt.text \o " b) { return a "
           \o o.text \o " b; }"
    ELSE "void bin(" \o lt.text \o " a, " \o rt.text \o " b) { if (a "
           \o o.text \o " b) { } }"

\* the parser accepts operands of the same signedness only
OperandPairs == {p \in OperandTypes \X OperandTypes : p[1].signed = p[2].signed}

BinaryPrograms == {BinaryText(p[1], p[2], o) : p \in OperandPairs, o \in BinaryOps}

\* the types a pointer refers to, with the type each one is lowered to
PointeeTypes ==
  {[text |-> "char", ty |-> IntTy(8)], [text |-> "int", ty |-> IntTy(32)],
   [text |-> "long", ty |-> IntTy(64)], [text |-> "ptr int", ty |-> PtrTy]}

\* the ways to step from a pointer p by i elements
PointerSteps == {"p + i", "i + p", "p - i", "p[i]"}

\* a function that returns the pointer stepped to, or the element p[i]
PointerText(target, step) ==
  (IF step = "p[i]" THEN "" ELSE "ptr ") \o target.text
    \o " step(ptr " \o target.text \o " p, int i) { return " \o step \o "; }"

PointerPrograms ==
  {PointerText(target, step) : target \in PointeeTypes, step \in PointerSteps}

\* a class C with the members first, a function that reads the member read
\* of an object of C, and C opened again with the members more
StructText(first, read, more) ==
  "class C { " \o MemberText(first) \o "} int get(C c) { return c." \o read \o "; }"
    \o (IF more = <<>> THEN "" ELSE " class C { " \o MemberText(more) \o "}")

StructPrograms ==
  UNION {{StructText(first, first[k], more) :
            k \in 1..Len(first),
            more \in SeqsNoRep(MemberPool \ {first[i] : i \in 1..Len(first)}, MaxMembers)} :
         first \in SeqsNoRep(MemberPool, MaxMembers) \ {<<>>}}

\* functions with at most MaxBody statements, and a declaration without body
LoweredPrograms ==
  {ret \o " f(int x) { " \o Concat(body) \o "}" :
     ret \in {"void", "int"}, body \in SeqsUpTo(Statements, MaxBody)}
    \cup {"int f(int x);"}
    \cup AddPrograms \cup ReturnPrograms \cup BinaryPrograms \cup PointerPrograms

CgInit ==
  /\ \E text \in LoweredPrograms :
       \E P \in {parseFile(newParser(text, RootFile))} :
       /\ P.err = ""
       /\ function = P.functions[1]
       /\ ctx = newContext(P.classes)
  /\ cgpc = "create"
  /\ bodyIndex = 1
  /\ src = "" /\ LexIdle /\ ParserOff /\ MainOff

\* FunctionNode::codeGen up to the body loop of generateFunctionBody: the
\* function is added to the module; with a body, the entry block is made and
\* the parameters are copied to the stack
CreateFunction ==
  /\ cgpc = "create"
  /\ \E C0 \in {
               [ctx EXCEPT
                  !.functions = MapAssign(ctx.functions, function.name,
                                          [ret |-> typeCodeGen(function.type),
                                           args |-> Len(function.params)]),
                  !.ret = typeCodeGen(function.type)]} :
     \E entry \in {createBlock(C0, "entry")} :
        IF function.hasBody
          THEN /\ ctx' = paramsCodeGen(cgPushScope(setInsertPoint(entry.C, entry.v)),
                                       function.params, 1)
               /\ cgpc' = "body"
          ELSE /\ ctx' = C0
               /\ cgpc' = "done"
  /\ UNCHANGED <<function, bodyIndex>>
  /\ UNCHANGED <<lexVars, parserVars, mainVars>>

\* one round of the body loop of generateFunctionBody
LowerStatement ==
  /\ cgpc = "body" /\ ctx.err = ""
  /\ bodyIndex <= Len(function.body)
  /\ \E C1 \in {stmtCodeGen(ctx, function.body[bodyIndex])} :
     /\ ctx' = C1
     /\ cgpc' = IF C1.err = "" /\ bodyLoopBreaks(C1) THEN "end" ELSE "body"
  /\ bodyIndex' = bodyIndex + 1
  /\ UNCHANGED function
  /\ UNCHANGED <<lexVars, parserVars, mainVars>>

\* the body loop has run through all statements
BodyDone ==
  /\ cgpc = "body" /\ ctx.err = ""
  /\ bodyIndex > Len(function.body)
  /\ cgpc' = "end"
  /\ UNCHANGED <<function, ctx, bodyIndex>>
  /\ UNCHANGED <<lexVars, parserVars, mainVars>>

\* "implicitly return void if block has no terminator", and the scope of
\* the body is popped
FinishFunction ==
  /\ cgpc = "end"
  /\ ctx' = cgPopScope(IF ~getTerminator(ctx, ctx.insert)
                         THEN emit(ctx, [op |-> "ret", to |-> <<>>, ty |-> VoidTy])
                         ELSE ctx)
  /\ cgpc' = "done"
  /\ UNCHANGED <<function, bodyIndex>>
  /\ UNCHANGED <<lexVars, parserVars, mainVars>>

CgNext ==
  \/ CreateFunction
  \/ LowerStatement
  \/ BodyDone
  \/ FinishFunction

CgSpec == CgInit /\ [][CgNext]_vars

-----------------------------------------------------------------------------
(* The driver.  main is the record of what main() holds and has done:      *)
(*   pc          "args", "open", "parse", "lower", "emit", "exit" or "off" *)
(*   argv        argv[1..argc-1]                                           *)
(*   srcFile, outputFile                                                   *)
(*   lowered     how many entries of the function list were handed to      *)
(*               FunctionNode::codeGen                                     *)
(*   verified    llvm::verifyModule has accepted the module                *)
(*   diagnostic  "" or the message main has written to the error stream    *)
(*   status      the exit status, -1 while main has not returned           *)
(*   written     the modules written: [to, functions]                      *)
(*   created     the output files opened for writing                       *)
(* A diagnostic of the parser or of the lowering is in parser.err or       *)
(* ctx.err: error::reportError has ended the process there.                *)

\* the argument loop of main from argv[i] on: pc = "undefined" when the loop
\* reads argv[argc], the null pointer, as a file name
RECURSIVE parseArguments(_, _)
parseArguments(M, i) ==
  IF i > Len(M.argv) THEN M
  ELSE IF M.argv[i] \in {"-f", "-o"}
    THEN IF i + 1 > Len(M.argv) THEN [M EXCEPT !.pc = "undefined"]
         ELSE parseArguments(
                IF M.argv[i] = "-f" THEN [M EXCEPT !.srcFile = M.argv[i + 1]]
                                    ELSE [M EXCEPT !.outputFile = M.argv[i + 1]],
                i + 2)
    ELSE [M EXCEPT !.diagnostic = "Invalid argument"]

\* a diagnostic of main itself: the message goes to the error stream and
\* the process ends with status 1
mainError(M, msg) ==
  [M EXCEPT !.diagnostic = msg, !.status = 1, !.pc = "exit"]

\* a failed verification that is reported while main goes on to write
verificationFailedGoesOn(M) ==
  [M EXCEPT !.diagnostic = "Module verification failed", !.pc = "emit"]

\* main after llvm::verifyModule has found the module broken
verificationFailed(M) == mainError(M, "Module verification failed")

\* llvm::verifyModule: TRUE when the module is broken.  A block that does
\* not end in its only terminator is broken; `other` stands for everything
\* else the verifier looks at
verifyModule(C, other) ==
  \/ other
  \/ \E b \in 1..Len(C.blocks) :
       \/ ~getTerminator(C, b)
       \/ \E i \in 1..(Len(C.blocks[b].insts) - 1) :
            C.blocks[b].insts[i].op \in Terminators

\* std::filesystem::path::stem of a path written without directory or
\* extension, possibly after "./"
stem(path) == canonical(path)

\* the diagnostic that has ended the process, or ""
diagnosed ==
  IF main.diagnostic # "" THEN main.diagnostic
  ELSE IF mode # "off" /\ parser.err # "" THEN parser.err
  ELSE IF ctx # <<>> /\ ctx.err # "" THEN ctx.err
  ELSE ""

\* the exit status of the process, -1 while it runs: exit(EXIT_FAILURE) of
\* reportError, std::terminate after an exception nobody catches, or what
\* main returns
exitStatus ==
  IF mode # "off" /\ parser.err = "out_of_range" THEN 134
  ELSE IF (mode # "off" /\ parser.err # "") \/ (ctx # <<>> /\ ctx.err # "") THEN 1
  ELSE main.status

\* command lines: with and without -o, without -f, with an unknown
\* argument, with a file that does not exist, with -f as the last word
ArgLists ==
  {<<"-f", "main">>, <<"-f", "main", "-o", "out">>, <<"-o", "out", "-f", "./main">>,
   <<"-o", "out">>, <<"main">>, <<"-f", "nofile">>, <<"-f">>,
   <<"-f", "main", "-o">>}

\* declarations with calls: each holds its text and, in the order they are
\* parsed, the functions it declares with the functions each one calls
CallPieces ==
  {[text |-> "int f() { return 1; } ", funcs |-> <<[name |-> "f", calls |-> {}]>>],
   [text |-> "int f(); ", funcs |-> <<[name |-> "f", calls |-> {}]>>],
   [text |-> "int f() { return f(); } ", funcs |-> <<[name |-> "f", calls |-> {"f"}]>>],
   [text |-> "int g() { return f(); } ", funcs |-> <<[name |-> "g", calls |-> {"f"}]>>],
   [text |-> "int f() { g(); return 1; } ", funcs |-> <<[name |-> "f", calls |-> {"g"}]>>],
   [text |-> "class C { int a; int m() { return g(); } } ",
    funcs |-> <<[name |-> "C_m", calls |-> {"g"}]>>]}

\* the text of a sequence of pieces
RECURSIVE CallText(_)
CallText(pieces) ==
  IF pieces = <<>> THEN "" ELSE pieces[1].text \o CallText(Tail(pieces))

CallPrograms == {CallText(pieces) : pieces \in SeqsUpTo(CallPieces, MaxBody)}

\* bodies that declare y inside an if arm, a while body, after a return, or
\* not at all, followed by a return that reads c, y or both: `declares` is
\* whether y is declared where the text before the last return ends, `ok`
\* whether the text before the last return resolves every name it reads
Declarations ==
  {[text |-> "", declares |-> FALSE, ok |-> TRUE],
   [text |-> "if (c) { int y = 1; } ", declares |-> TRUE, ok |-> TRUE],
   [text |-> "while (c) { int y = 1; } ", declares |-> TRUE, ok |-> TRUE],
   \* the else arm is written without an opening brace (statement.cpp:63-75)
   [text |-> "if (c) { } else int y = c; } ", declares |-> TRUE, ok |-> TRUE],
   [text |-> "if (c) { return 1; int y = 2; } ", declares |-> TRUE, ok |-> TRUE],
   [text |-> "return 1; int y = 2; ", declares |-> TRUE, ok |-> TRUE],
   [text |-> "int y = y; ", declares |-> FALSE, ok |-> FALSE]}

Reads ==
  {[text |-> "c", y |-> FALSE], [text |-> "y", y |-> TRUE],
   [text |-> "y + c", y |-> TRUE]}

DeclaredText(first, r) == "int f(int c) { " \o first \o "return " \o r \o "; }"

DeclaredPrograms == {DeclaredText(d.text, r.text) : d \in Declarations, r \in Reads}

\* the projects main is run on
MainProjects ==
  {[main |-> text] :
     text \in IfPrograms \cup TypedefPrograms \cup AddPrograms \cup NamePrograms
                \cup CallPrograms \cup StructPrograms \cup DeclaredPrograms
                \cup {"int f(int x) { while (x < 1) { return 1; } }",
                      "void f() { return 1; }", "int g(); int f() { return h(); }",
                      "class C { int a; int m() { return a; } } int f(C c) { return c.m(); }"}}
    \cup {p \in ImportProjects : p.a = "void fa();" /\ p.b = "void fb();"}

MainInit ==
  /\ files \in MainProjects
  /\ \E argv \in ArgLists : main = [NoMain EXCEPT !.pc = "args", !.argv = argv]
  /\ parser = <<>> /\ stack = <<>> /\ mode = "off" /\ trace = <<>>
  /\ src = "" /\ LexIdle /\ CgOff

\* main up to the test of srcFile: the argument loop
ParseArgs ==
  /\ main.pc = "args"
  /\ \E M \in {parseArguments(main, 1)} :
       IF M.pc = "undefined"
         THEN \* std::string from a null pointer: the process is killed
              \E signal \in {134, 139} :
                main' = [M EXCEPT !.pc = "exit", !.status = signal]
       ELSE IF M.diagnostic # "" THEN main' = mainError(M, M.diagnostic)
       ELSE IF M.srcFile = ""
         THEN main' = mainError(M, "Missing required argument: -f <source file>")
       ELSE main' = [M EXCEPT !.pc = "open"]
  /\ UNCHANGED <<lexVars, parserVars, cgVars>>

\* main reads the source file and constructs the parser; parse() begins
ReadSource ==
  /\ main.pc = "open"
  /\ IF canonical(main.srcFile) \notin DOMAIN files
       THEN /\ main' = mainError(main, "Could not open file")
            /\ UNCHANGED parserVars
     ELSE IF stem(main.srcFile) = ""
       THEN /\ main' = mainError(main, "Invalid class name derived from file path")
            /\ UNCHANGED parserVars
     ELSE /\ main' = [main EXCEPT !.pc = "parse"]
          /\ parser' = newParser(files[canonical(main.srcFile)], main.srcFile)
          /\ stack' = <<>>
          /\ mode' = "imports"
          /\ trace' = <<Event("open", main.srcFile)>>
          /\ UNCHANGED files
  /\ UNCHANGED <<lexVars, cgVars>>

\* parse() has returned; the loop over the classes: each one is declared
\* in the context
LowerClasses ==
  /\ main.pc = "parse" /\ mode = "done"
  /\ main' = [main EXCEPT !.pc = "lower"]
  /\ ctx' = newContext(parser.classes)
  /\ UNCHANGED <<function, cgpc, bodyIndex>>
  /\ UNCHANGED <<lexVars, parserVars>>

\* the loop over the functions takes the next one
NextFunction ==
  /\ main.pc = "lower" /\ cgpc \in {"off", "done"} /\ ctx.err = ""
  /\ main.lowered < Len(parser.functions)
  /\ function' = parser.functions[main.lowered + 1]
  /\ cgpc' = "create"
  /\ bodyIndex' = 1
  /\ main' = [main EXCEPT !.lowered = main.lowered + 1]
  /\ UNCHANGED ctx
  /\ UNCHANGED <<lexVars, parserVars>>

\* every function is lowered: the module is verified
Verify ==
  /\ main.pc = "lower" /\ cgpc \in {"off", "done"} /\ ctx.err = ""
  /\ main.lowered = Len(parser.functions)
  /\ \E other \in BOOLEAN :
       main' = IF verifyModule(ctx, other) THEN verificationFailed(main)
               ELSE [main EXCEPT !.pc = "emit", !.verified = TRUE]
  /\ UNCHANGED <<lexVars, parserVars, cgVars>>

\* without -o the module is printed to the standard output; main returns 0
PrintModule ==
  /\ main.pc = "emit" /\ main.outputFile = ""
  /\ main' = [main EXCEPT
                !.written = Append(main.written,
                              [to |-> "stdout", functions |-> DOMAIN ctx.functions]),
                !.status = 0, !.pc = "exit"]
  /\ UNCHANGED <<lexVars, parserVars, cgVars>>

\* with -o an object file is written, unless the target is not found, the
\* file cannot be opened or the target cannot emit object files
EmitObject ==
  /\ main.pc = "emit" /\ main.outputFile # ""
  /\ \E outcome \in {"no target", "not opened", "cannot emit", "emitted"} :
       main' =
         CASE outcome = "no target" -> mainError(main, "No available targets")
           [] outcome = "not opened" -> mainError(main, "Could not open file")
           [] outcome = "cannot emit" ->
                mainError([main EXCEPT !.created = main.created \cup {main.outputFile}],
                          "TargetMachine can't emit a file of this type")
           [] outcome = "emitted" ->
                [main EXCEPT
                   !.created = main.created \cup {main.outputFile},
                   !.written = Append(main.written,
                                 [to |-> main.outputFile,
                                  functions |-> DOMAIN ctx.functions]),
                   !.status = 0, !.pc = "exit"]
  /\ UNCHANGED <<lexVars, parserVars, cgVars>>

MainNext ==
  \/ ParseArgs
  \/ ReadSource
  \/ ImportStep
  \/ ImportsDone
  \/ ParseFileItem
  \/ FileDone
  \/ LowerClasses
  \/ NextFunction
  \/ CreateFunction
  \/ LowerStatement
  \/ BodyDone
  \/ FinishFunction
  \/ Verify
  \/ PrintModule
  \/ EmitObject

MainSpec == MainInit /\ [][MainNext]_vars

-----------------------------------------------------------------------------
(* Properties of the lexer.                                                *)

\* C4: after restoreState(s), every peek and every consume returns the
\* token (kind, lexeme, row, column) that the call for the same token index
\* returned between saveState() and restoreState(s).
C4_RestoreReplays ==
  (restored /\ last.op \in {"peek", "consume"} /\ last.idx \in DOMAIN obs)
    => last.tok = obs[last.idx]

\* a second walk has consumed a token the first walk had seen, from a state
\* saved after the first token
C4_Witness ==
  /\ restored /\ last.op = "consume"
  /\ savedPos > 0 /\ last.idx > savedPos
  /\ last.idx \in DOMAIN obs

\* C5: the k-th consume() returns the k-th token of the source and
\* peek(n) after k consumes returns token k+n: peeking removes nothing, and
\* consume() neither skips nor repeats a token.
C5_ConsumeReturnsPeeked ==
  last.op \in {"peek", "consume"}
    => last.tok = tokenAt(src, StartPos, last.idx)

\* a consume() of the third token while tokens peeked earlier are waiting
C5_Witness ==
  /\ last.op = "consume" /\ last.idx = 2 /\ Len(lookAhead) > 0
  /\ last.tok.type # "EndOfFile" /\ ~restored

-----------------------------------------------------------------------------
(* Properties of the parser.                                               *)

\* the members of class c in the order of their first declarations
RECURSIVE declaredOrder(_, _, _)
declaredOrder(declared, c, acc) ==
  IF declared = <<>> THEN acc
  ELSE LET d == Head(declared)
           seen == {acc[i] : i \in 1..Len(acc)}
       IN declaredOrder(Tail(declared), c,
                        IF d.cls = c /\ d.member \notin seen
                          THEN Append(acc, d.member) ELSE acc)

\* C1: for every class the struct body lists the data members in the
\* order of their declarations, and the field index of a member is its
\* position in that order; the members of a re-opened class keep their
\* positions and the new members follow them.
C1_MembersInDeclarationOrder ==
  mode # "off" =>
    \A i \in 1..Len(parser.classes) :
      LET decl == parser.classes[i]
          order == declaredOrder(parser.declared, decl.name, <<>>)
      IN /\ memberNames(decl) = order
         /\ \A j \in 1..Len(order) : lookupMemberIndex(decl, order[j]) = j - 1

\* a class whose first declared member is not the field of index 0
C1_Witness ==
  /\ mode = "done"
  /\ \E i \in 1..Len(parser.classes) :
       LET decl == parser.classes[i]
           order == declaredOrder(parser.declared, decl.name, <<>>)
       IN lookupMemberIndex(decl, order[1]) # 0

\* C2: every function added for a method m of a class C is named C_m and
\* takes `this`, of type pointer to C, as its first parameter, followed by
\* the parameters written in the source in their order.
C2_MethodsTakeThis ==
  mode # "off" =>
    \A i \in 1..Len(parser.functions) :
      LET f == parser.functions[i]
          h == parser.headers[i]
      IN h.cls # "" =>
           /\ f.name = h.cls \o "_" \o h.base
           /\ Len(f.params) = Len(h.params) + 1
           /\ f.params[1] = [name |-> "this",
                             type |-> PointerTypeNode(ClassReferenceNode(h.cls))]
           /\ \A j \in 1..Len(h.params) : f.params[j + 1].name = h.params[j]

\* a method of a class without data members was added without `this`
C2_Witness ==
  /\ mode = "done"
  /\ parser.declared = <<>>
  /\ \E i \in 1..Len(parser.functions) :
       /\ parser.headers[i].cls = "C"
       /\ parser.functions[i].name = "C_m"
       /\ Len(parser.functions[i].params) = Len(parser.headers[i].params)

SignednessDiagnostic ==
  "Cannot create binary operation with types of different signedness"

\* C3: every BinaryOperation node the parser has constructed has operands
\* and a result of one signedness, and operands of different signedness
\* make no node: they end the parse with the diagnostic.
C3_OperandsShareSign ==
  mode # "off" =>
    /\ \A i \in 1..Len(parser.built) :
         LET node == parser.built[i] IN
         /\ node.L.signed = node.R.signed
         /\ node.signed = node.L.signed
    /\ \A i \in 1..Len(parser.refused) :
         /\ parser.refused[i].L.signed # parser.refused[i].R.signed
         /\ parser.err = SignednessDiagnostic
         /\ mode # "done"
    /\ parser.err = SignednessDiagnostic => Len(parser.refused) = 1

\* an unsigned node was built and then refused a signed right operand
C3_Witness ==
  /\ mode # "off"
  /\ Len(parser.refused) = 1
  /\ ~parser.refused[1].L.signed /\ parser.refused[1].R.signed
  /\ parser.refused[1].L.k = "BinaryOperation"
  /\ \E i \in 1..Len(parser.built) : ~parser.built[i].signed

\* what a lookup found, read off the scope stack and the class table as
\* they were when the name was resolved
InScope(e) == \E i \in 1..Len(e.scopes) : e.name \in DOMAIN e.scopes[i]

ThisClass(e) ==
  LET holders == {i \in 1..Len(e.scopes) : "this" \in DOMAIN e.scopes[i]}
      thisType == e.scopes[CHOOSE i \in holders : \A j \in holders : j <= i]["this"]
  IN IF holders # {} /\ thisType.k = "ptr" /\ thisType.target.k = "class"
       THEN thisType.target.decl ELSE ""

IsMember(e) ==
  /\ ThisClass(e) # ""
  /\ \E i \in 1..Len(e.classes) :
       /\ e.classes[i].name = ThisClass(e)
       /\ e.name \in DOMAIN e.classes[i].members

IsMemberAccess(e) ==
  /\ e.expr.k = "StructAccess"
  /\ e.expr.memberName = e.name
  /\ e.expr.structExpr.k = "Dref"
  /\ e.expr.structExpr.target.k = "VariableReference"
  /\ e.expr.structExpr.target.name = "this"

\* C6: a bare name that a parameter or a variable declaration has put on
\* the scope stack resolves to that variable, also when the class has a
\* member of the name; otherwise a member of the class of `this` resolves
\* to (*this).name; otherwise the parse ends with "Undefined variable".
C6_ResolutionOrder ==
  mode # "off" =>
    \A i \in 1..Len(parser.resolved) :
      LET e == parser.resolved[i] IN
      /\ InScope(e) => e.expr.k = "VariableReference" /\ e.expr.name = e.name
      /\ (~InScope(e) /\ IsMember(e)) => IsMemberAccess(e)
      /\ (~InScope(e) /\ ~IsMember(e)) =>
           /\ e.expr = NoExpr
           /\ i = Len(parser.resolved)
           /\ parser.err = "Undefined variable"
      /\ e.expr # NoExpr => (i < Len(parser.resolved) \/ parser.err # "Undefined variable")

\* a parameter that has the name of a member was resolved
C6_Witness ==
  /\ mode = "done"
  /\ \E i \in 1..Len(parser.resolved) :
       LET e == parser.resolved[i] IN
       InScope(e) /\ IsMember(e) /\ e.expr.k = "VariableReference"

importsOf(toks) ==
  {canonical(toks[i + 1].src) :
     i \in {k \in 1..(Len(toks) - 1) :
              toks[k].type = "Import" /\ toks[k + 1].type = "StringLit"}}

\* the files that file F imports, directly or through other files
RECURSIVE reachable(_, _)
reachable(found, n) ==
  IF n = 0 THEN found
  ELSE reachable(
         found \cup UNION {importsOf(tokenize(files[g], [c |-> 0, row |-> 1, col |-> 1],
                                              <<>>).toks) \cap DOMAIN files :
                           g \in found},
         n - 1)

transitiveImports(F) ==
  reachable(importsOf(tokenize(files[F], [c |-> 0, row |-> 1, col |-> 1], <<>>).toks)
              \cap DOMAIN files,
            Cardinality(DOMAIN files))

\* C8: when a declaration of a file F is parsed, every file that an import
\* statement of F names, and every file those import, has been parsed to
\* its end.
C8_ImportsBeforeDeclarations ==
  mode # "off" =>
    \A i \in 1..Len(trace) :
      trace[i].e = "decl" =>
        \A X \in transitiveImports(trace[i].file) :
          \E j \in 1..(i - 1) : trace[j] = Event("done", X)

\* the root file was parsed to its end and a file that one of its import
\* statements names was never opened
C8_Witness ==
  /\ mode = "done"
  /\ \E i \in 1..Len(trace) : trace[i] = Event("import", RootFile)
  /\ \E X \in transitiveImports(RootFile) :
       \A j \in 1..Len(trace) : trace[j] # Event("open", X)

OpenedOnce ==
  \A i, j \in 1..Len(trace) :
    (trace[i].e = "open" /\ trace[j].e = "open" /\ trace[i].file = trace[j].file)
      => i = j

SkipAddsNothing ==
  (Len(trace') = Len(trace) + 1 /\ trace'[Len(trace')].e = "skip")
    => /\ parser'.functions = parser.functions
       /\ parser'.classes = parser.classes
       /\ parser'.types = parser.types

Finished == mode = "done" \/ parser.err # ""

\* the number of tokens of a file
tokenCount(F) ==
  Len(tokenize(files[F], [c |-> 0, row |-> 1, col |-> 1], <<>>).toks)

RECURSIVE sumOver(_)
sumOver(S) ==
  IF S = {} THEN 0
  ELSE LET F == CHOOSE F \in S : TRUE IN tokenCount(F) + 3 + sumOver(S \ {F})

\* every step of parse() adds one entry to the trace: the runs are no
\* longer than the opening, the body, the end and the tokens of every file
StepsBounded == Len(trace) <= sumOver(DOMAIN files)

\* parse() has returned, a diagnostic has ended the process, or there is a
\* next step
NotStuck ==
  \/ Finished
  \/ mode = "imports"
  \/ mode = "file"

\* C9: no canonical path is opened for parsing twice; an import of a path
\* that was opened before (the root included) leaves the function list, the
\* class table and the type registry as they were; and parse() comes to its
\* end: every run is made of a bounded number of steps.
C9_ImportedOnce ==
  /\ [](mode # "off" => OpenedOnce /\ StepsBounded /\ NotStuck)
  /\ [][mode # "off" => SkipAddsNothing]_vars

\* a file imported the root file, which was skipped, and parse() returned
C9_Witness ==
  /\ mode = "done"
  /\ \E i \in 1..Len(trace) : trace[i] = Event("skip", RootFile)
  /\ \E i, j \in 1..Len(trace) :
       /\ i # j /\ trace[i].e = "skip" /\ trace[j].e = "skip"
       /\ trace[i].file # trace[j].file

-----------------------------------------------------------------------------
(* Properties of the IR builder.                                           *)

\* the number of terminator instructions of a block
terminatorCount(block) ==
  Cardinality({i \in 1..Len(block.insts) : block.insts[i].op \in Terminators})

\* C10: when the lowering of a function with a body has finished, the
\* block the builder inserts into holds exactly one terminator, and an
\* empty body gives the entry block alone, ended by ret void.
C10_FinalBlockTerminated ==
  (cgpc = "done" /\ function.hasBody /\ ctx.err = "") =>
    /\ terminatorCount(ctx.blocks[ctx.insert]) = 1
    /\ getTerminator(ctx, ctx.insert)
    /\ function.body = <<>> =>
         /\ Len(ctx.blocks) = 1
         /\ ctx.blocks[1].name = "entry"
         /\ ctx.blocks[1].insts[Len(ctx.blocks[1].insts)] =
              [op |-> "ret", to |-> <<>>, ty |-> VoidTy]
         /\ terminatorCount(ctx.blocks[1]) = 1

\* a body with an if/else and a loop was lowered to its end, one block
\* holds two terminators, and the final block is not the entry block
C10_Witness ==
  /\ cgpc = "done" /\ function.hasBody /\ ctx.err = ""
  /\ \E i, j \in 1..Len(function.body) :
       /\ function.body[i].k = "If" /\ function.body[i].hasFalseBody
       /\ function.body[j].k = "While"
  /\ \E b \in 1..Len(ctx.blocks) : terminatorCount(ctx.blocks[b]) = 2
  /\ ctx.insert # 1

-----------------------------------------------------------------------------
(* Properties of the parser's scopes, names and statements.                *)

\* C12: within one scope frame a variable name is introduced at most once:
\* no name is entered into a frame that already holds it.
C12_IntroducedOnce ==
  mode # "off" =>
    \A i \in 1..Len(parser.introduced) :
      parser.introduced[i].name
        \notin DOMAIN parser.introduced[i].scopes[Len(parser.introduced[i].scopes)]

\* a file was parsed to its end without a diagnostic although a name was
\* entered into the frame that already held it
C12_Witness ==
  /\ mode = "done" /\ parser.err = ""
  /\ \E i \in 1..Len(parser.introduced) :
       parser.introduced[i].name
         \in DOMAIN parser.introduced[i].scopes[Len(parser.introduced[i].scopes)]

\* C14: no two entries of the function list carry the same name.
C14_FunctionNamesDiffer ==
  mode # "off" =>
    \A i, j \in 1..Len(parser.functions) :
      i # j => parser.functions[i].name # parser.functions[j].name

\* a file was parsed to its end without a diagnostic and the function list
\* holds a name twice
C14_Witness ==
  /\ mode = "done" /\ parser.err = ""
  /\ \E i, j \in 1..Len(parser.functions) :
       i < j /\ parser.functions[i].name = parser.functions[j].name

\* C15: `if ( E ) { S1 } else { S2 }` is accepted and gives an If node with
\* the then-arm S1 and the else-arm S2; without `else` the else-arm is absent
\* and parsing goes on after the closing brace.
C15_IfElseAccepted ==
  \A t \in ThenArms, a \in ElseArms :
    (mode # "off" /\ files = [main |-> IfText(t.text, a.text)]) =>
      /\ parser.err = ""
      /\ mode = "done" =>
           /\ Len(parser.functions) = 1
           /\ parser.functions[1].body =
                <<If(VariableReference("x", TRUE), t.stmts, a.has, a.stmts),
                  Return(IntLiteral(3))>>

\* an if statement without an else arm was parsed into an If node whose
\* else-arm is absent, and the statement after it was parsed
C15_Witness ==
  /\ mode = "done" /\ parser.err = ""
  /\ \E t \in ThenArms :
       /\ files = [main |-> IfText(t.text, "")]
       /\ parser.functions[1].body =
            <<If(VariableReference("x", TRUE), t.stmts, FALSE, <<>>),
              Return(IntLiteral(3))>>

\* C19: a scope frame is pushed where the block of an if, else or while
\* opens and popped at its closing brace: where a name is resolved, the scope
\* stack holds one frame per open brace of the function, and a name that
\* resolves to a variable was introduced in a block that is still open.
C19_BlockScopes ==
  mode # "off" =>
    \A i \in 1..Len(parser.resolved) :
      LET e == parser.resolved[i]
      IN /\ Len(e.scopes) = Len(e.open) - (IF e.cls # "" THEN 1 ELSE 0)
         /\ e.expr.k = "VariableReference" =>
              \E j \in 1..Len(parser.introduced) :
                LET d == parser.introduced[j]
                IN /\ d.name = e.name /\ d.file = e.file
                   /\ Len(d.open) <= Len(e.open)
                   /\ d.open = SubSeq(e.open, 1, Len(d.open))

\* a file was parsed to its end without a diagnostic, and a name that was
\* introduced only inside a block was resolved after the block was closed
C19_Witness ==
  /\ mode = "done" /\ parser.err = ""
  /\ \E i \in 1..Len(parser.resolved) :
       LET e == parser.resolved[i]
       IN /\ e.expr.k = "VariableReference"
          /\ \A j \in 1..Len(parser.introduced) :
               LET d == parser.introduced[j]
               IN d.name = e.name =>
                    \/ Len(d.open) > Len(e.open)
                    \/ d.open # SubSeq(e.open, 1, Len(d.open))

\* C13: every identifier accepted where something is named (a variable, a
\* parameter, a function, a method, a class, a member, a typedef alias, a
\* call target) has no underscore: no file that writes a name with an
\* underscore in one of these positions is parsed to its end, and no name
\* the parser has entered anywhere holds one.
C13_NoUnderscoreAccepted ==
  mode # "off" =>
    /\ \A position \in NamePositions, n \in NamePool :
         (HasUnderscore(n) /\ files = [main |-> NameText(position, n)])
           => mode # "done"
    /\ \A n \in DOMAIN parser.types : ~HasUnderscore(n)
    /\ \A i \in 1..Len(parser.introduced) : ~HasUnderscore(parser.introduced[i].name)
    /\ \A i \in 1..Len(parser.headers) : ~HasUnderscore(parser.headers[i].base)
    /\ \A i \in 1..Len(parser.declared) : ~HasUnderscore(parser.declared[i].member)

\* a file was parsed to its end without a diagnostic and the type registry
\* holds a name with an underscore
C13_Witness ==
  /\ mode = "done" /\ parser.err = ""
  /\ \E n \in DOMAIN parser.types : HasUnderscore(n)

\* C16: an integer literal written with the prefix 0x or 0X is read in base
\* 16, any other in base 10: `T[lit]` is an array of that many elements and
\* the expression `lit` is a literal of that value.
C16_HexLiterals ==
  \A lit \in Literals :
    /\ (mode # "off" /\ files = [main |-> LiteralText(lit.text, "expression")]) =>
         /\ parser.err = ""
         /\ mode = "done" =>
              parser.functions[1].body = <<Return(IntLiteral(lit.value))>>
    /\ (mode # "off" /\ files = [main |-> LiteralText(lit.text, "array")]) =>
         /\ parser.err = ""
         /\ mode = "done" =>
              parser.functions[1].body =
                <<VariableDeclaration(
                    ArrayTypeNode(PrimitiveTypes["int"], lit.value), "a", NoExpr),
                  Return(IntLiteral(1))>>

\* the parser has stopped at the `x` of a literal written with a prefix
C16_Witness ==
  /\ mode = "file" /\ parser.err # ""
  /\ \E lit \in Literals :
       /\ literalBase(lit.text) = 16
       /\ files = [main |-> LiteralText(lit.text, "array")]
       /\ lexPeek(parser, 0).type = "Identifier"
       /\ lexPeek(parser, 0).src = SubSeq(lit.text, 2, Len(lit.text))

\* C20: after `typedef A T;` with T a registered type (a primitive type, a
\* class, an earlier alias) A names the descriptor of T wherever a type is
\* written later; a T that is not registered ends the parse.
C20_TypedefAliases ==
  \A target \in TypedefTargets :
    (mode # "off" /\ files = [main |-> TypedefText(target)]) =>
      IF target \in RegisteredTargets
        THEN /\ parser.err = ""
             /\ mode = "done" =>
                  LET f == parser.functions[1]
                      T == parser.types[target]
                  IN /\ f.type = T
                     /\ f.params = <<[name |-> "x", type |-> T]>>
                     /\ f.body = <<VariableDeclaration(T, "y", NoExpr),
                                   VariableDeclaration(PointerTypeNode(T), "p", NoExpr),
                                   VariableDeclaration(ArrayTypeNode(T, 2), "q", NoExpr),
                                   Return(VariableReference("x", isSigned(T)))>>
        ELSE mode # "done"

\* the alias of an alias of a primitive type was used in every type position
\* of a function that was parsed to its end
C20_Witness ==
  /\ mode = "done" /\ parser.err = ""
  /\ files = [main |-> TypedefText("B")]
  /\ parser.types["A"] = PrimitiveTypes["char"]
  /\ parser.functions[1].type = PrimitiveTypes["char"]

\* C17: for `int add(char a, int b) { int r = a + b; return r; }` the
\* 8-bit operand a is sign-extended to 32 bits before the add, the add is
\* performed on 32-bit values, and b is not truncated.
C17_WidenBeforeAdd ==
  (cgpc = "done" /\ ctx.err = "" /\ function.name = "add"
     /\ function.params[1].type = PrimitiveTypes["char"]
     /\ function.params[2].type = PrimitiveTypes["int"]) =>
    LET insts == ctx.blocks[1].insts
    IN /\ \A i \in 1..Len(insts) : insts[i].op # "trunc"
       /\ \E i \in 1..Len(insts) :
            /\ insts[i] = [op |-> "add", ty |-> IntTy(32)]
            /\ \E j \in 1..(i - 1) :
                 insts[j] = [op |-> "sext", from |-> IntTy(8), to |-> IntTy(32)]

\* the sum of a char and an int was lowered to its end: the int operand was
\* truncated to 8 bits and the add was made on 8-bit values
C17_Witness ==
  /\ cgpc = "done" /\ ctx.err = "" /\ function.name = "add"
  /\ function.params[1].type = PrimitiveTypes["char"]
  /\ function.params[2].type = PrimitiveTypes["int"]
  /\ \E i \in 1..Len(ctx.blocks[1].insts) :
       /\ ctx.blocks[1].insts[i] = [op |-> "add", ty |-> IntTy(8)]
       /\ \E j \in 1..(i - 1) :
            ctx.blocks[1].insts[j] =
              [op |-> "trunc", from |-> IntTy(32), to |-> IntTy(8)]

\* C18: once the block the builder inserts into has a terminator, nothing
\* more is appended to it: every block holds at most one terminator, and the
\* terminator is the last instruction of its block.
C18_OneTerminatorLast ==
  cgpc # "off" =>
    \A b \in 1..Len(ctx.blocks) :
      \A i \in 1..Len(ctx.blocks[b].insts) :
        ctx.blocks[b].insts[i].op \in Terminators => i = Len(ctx.blocks[b].insts)

\* a function was lowered to its end without a diagnostic, and the body
\* block of a loop holds a `ret` followed by the branch back to the condition
C18_Witness ==
  /\ cgpc = "done" /\ ctx.err = ""
  /\ \E b \in 1..Len(ctx.blocks) :
       /\ ctx.blocks[b].name = "body"
       /\ Len(ctx.blocks[b].insts) >= 2
       /\ ctx.blocks[b].insts[Len(ctx.blocks[b].insts) - 1].op = "ret"
       /\ ctx.blocks[b].insts[Len(ctx.blocks[b].insts)].op = "br"

-----------------------------------------------------------------------------
(* Properties of the driver.                                               *)

\* C11: the module is written only after parsing, the lowering of the
\* classes and of every function, and the verification have all ended
\* without a diagnostic; once a diagnostic is reported no further step is
\* taken, nothing is written, and the exit status is not zero.
C11_FailFast ==
  /\ [](main.pc # "off" =>
         /\ main.written # <<>> =>
              /\ mode = "done" /\ parser.err = ""
              /\ ctx # <<>> /\ ctx.err = ""
              /\ cgpc \in {"off", "done"}
              /\ main.lowered = Len(parser.functions)
              /\ main.verified
              /\ diagnosed = ""
         /\ diagnosed # "" =>
              /\ main.written = <<>>
              /\ exitStatus \notin {-1, 0})
  /\ [][diagnosed # "" => UNCHANGED vars]_vars

\* the module of a file with a function was lowered to its end and the
\* verifier has rejected it: main has returned 1 and has written nothing
C11_Witness ==
  /\ main.pc = "exit" /\ main.diagnostic = "Module verification failed"
  /\ mode = "done" /\ main.lowered > 0 /\ cgpc = "done"
  /\ main.written = <<>> /\ main.status = 1

-----------------------------------------------------------------------------
(* Properties of expressions.                                              *)

\* the tree of a op1 b op2 c ...: the operators of the lowest level are at
\* the top, and of those the one written last is the root
RECURSIVE grouped(_, _)
grouped(names, ops) ==
  IF ops = <<>> THEN VariableReference(names[1], TRUE)
  ELSE LET lowest == CHOOSE l \in {ops[i].level : i \in 1..Len(ops)} :
                       \A i \in 1..Len(ops) : l <= ops[i].level
           k == CHOOSE i \in 1..Len(ops) :
                  /\ ops[i].level = lowest
                  /\ \A j \in (i + 1)..Len(ops) : ops[j].level # lowest
       IN BinaryOperation(ops[k].op,
            grouped(SubSeq(names, 1, k), SubSeq(ops, 1, k - 1)),
            grouped(SubSeq(names, k + 1, Len(names)), SubSeq(ops, k + 1, Len(ops))),
            TRUE)

\* what each precedence program is expected to give as the body of f
PrecExpected ==
  {[text |-> PrecText(place, ops),
    body |-> CASE place = "return" -> <<Return(grouped(TermNames, ops))>>
               [] place = "condition" ->
                    <<If(grouped(TermNames, ops), <<>>, FALSE, <<>>),
                      Return(IntLiteral(0))>>
               [] place = "argument" ->
                    <<Return(FunctionCall("g",
                               <<grouped(TermNames, ops),
                                 VariableReference("a", TRUE)>>, TRUE))>>] :
     place \in {"return", "condition", "argument"},
     ops \in PrecOperators}

\* C21: an expression of primary expressions joined by binary operators is
\* parsed into the tree that groups by precedence (* / above + - above < >
\* above ==) and to the left among equals, and parsing stops in front of the
\* terminator, which the caller then consumes.
C21_PrecedenceAndAssociativity ==
  (mode # "off" /\ DOMAIN files = {"main"}) =>
    \A e \in PrecExpected :
      files.main = e.text =>
        /\ parser.err = ""
        /\ mode = "done" => parser.functions[2].body = e.body

\* `a * b + c == d` in a return statement was parsed into
\* ((a * b) + c) == d
C21_Witness ==
  /\ mode = "done" /\ parser.err = ""
  /\ \E ops \in PrecOperators :
       /\ Len(ops) = 3
       /\ <<ops[1].text, ops[2].text, ops[3].text>> = <<"*", "+", "==">>
       /\ files = [main |-> PrecText("return", ops)]
       /\ parser.functions[2].body =
            <<Return(BinaryOperation("Equal",
                       BinaryOperation("Add",
                         BinaryOperation("Multiply", VariableReference("a", TRUE),
                                         VariableReference("b", TRUE), TRUE),
                         VariableReference("c", TRUE), TRUE),
                       VariableReference("d", TRUE), TRUE))>>

\* C22: wherever a type is required, an identifier that is no registered type
\* name ends parsing with a diagnostic: no function, parameter or member of
\* an unresolved type is in the function list or the class table.
C22_NoUnresolvedType ==
  mode # "off" =>
    /\ \A i \in 1..Len(parser.functions) :
         /\ parser.functions[i].type # NoType
         /\ \A j \in 1..Len(parser.functions[i].params) :
              parser.functions[i].params[j].type # NoType
    /\ \A i \in 1..Len(parser.classes) :
         \A m \in DOMAIN parser.classes[i].members :
           parser.classes[i].members[m] # NoType

\* `int f(x) { return 1; }` was parsed to its end without a diagnostic, and
\* the parameter x of f has no type
C22_Witness ==
  /\ mode = "done" /\ parser.err = ""
  /\ files = [main |-> "int f(x) { return 1; }"]
  /\ Len(parser.functions) = 1
  /\ parser.functions[1].params = <<[name |-> "x", type |-> NoType]>>
  /\ parser.functions[1].hasBody

\* C23: after the header of a function, `{` starts a body that is parsed to
\* its `}`, `;` is consumed and the function has no body, and any other
\* token is left where it is and the function has no body: the declaration
\* that follows is parsed from its first token.
C23_HeaderLeavesNextDeclaration ==
  (mode # "off" /\ DOMAIN files = {"main"}) =>
    \A end \in HeaderEnds : \A d \in Followers :
      files.main = HeaderText(end, d) =>
        /\ parser.err = ""
        /\ mode = "done" =>
             /\ parser.functions[1].name = "f"
             /\ parser.functions[1].hasBody = (end = " { return 1; }")
             /\ IF d.class
                  THEN Len(parser.functions) = 1 /\ Len(parser.classes) = 1
                         /\ parser.classes[1].name = "g"
                  ELSE Len(parser.functions) = 2
                         /\ parser.functions[2].name = "g"
                         /\ parser.functions[2].type = d.type

\* `int f() int g();` was parsed to its end: f has no body, and g was parsed
\* from its name on, so that it has no return type
C23_Witness ==
  /\ mode = "done" /\ parser.err = ""
  /\ files = [main |-> "int f() int g();"]
  /\ Len(parser.functions) = 2
  /\ ~parser.functions[1].hasBody
  /\ parser.functions[2].name = "g"
  /\ parser.functions[2].type = NoType

\* how many top-level items parseFile has taken up
itemsParsed == Cardinality({i \in 1..Len(trace) : trace[i].e = "decl"})

\* the nodes of the arguments as written
argNodes(args) == [i \in 1..Len(args) |-> args[i].expr]

\* what each program that calls the method m is expected to give as the
\* body of f
MethodExpected ==
  {[text |-> MethodText(ret, receiver, "m", args),
    body |-> <<Return(FunctionCall("C_m",
                        <<AddressOf(receiver.expr, FALSE)>> \o argNodes(args),
                        ret = "int"))>>] :
     ret \in {"int", "uint"}, receiver \in Receivers,
     args \in SeqsUpTo(MethodArgs, MaxBody)}

\* the programs that call the method n, which C does not have
MethodMissing ==
  {MethodText(ret, receiver, "n", args) :
     ret \in {"int", "uint"}, receiver \in Receivers,
     args \in SeqsUpTo(MethodArgs, MaxBody)}

\* C24: a method call x.m(a1, ..., an) on an object of class C, or on a
\* pointer to one, is parsed into the call of C_m with the address of the
\* object first and a1..an after it in the order written, signed as the
\* return type of C_m is; when no function C_m has been parsed the parse ends
\* with a diagnostic.
C24_MethodCall ==
  (mode # "off" /\ DOMAIN files = {"main"}) =>
    /\ \A e \in MethodExpected :
         files.main = e.text =>
           /\ parser.err = ""
           /\ mode = "done" =>
                /\ parser.functions[1].name = "C_m"
                /\ parser.functions[2].body = e.body
    \* the class is the first item parsed and f the second
    /\ files.main \in MethodMissing =>
         /\ mode # "done"
         /\ itemsParsed = 2 => parser.err = "Call to undefined member method"
    /\ files.main = "class C { int a; int m() { return this.n(); } int n() { return 1; } }"
         => /\ mode # "done"
            /\ itemsParsed = 1 => parser.err = "Call to undefined member method"

\* p.m(i, 7) on a pointer p to a C whose method m returns uint was parsed
\* into the unsigned call C_m(&$p, i, 7)
C24_Witness ==
  /\ mode = "done" /\ parser.err = ""
  /\ \E receiver \in Receivers : \E args \in SeqsUpTo(MethodArgs, MaxBody) :
       /\ receiver.text = "p"
       /\ ArgText(args) = "i, 7"
       /\ files = [main |-> MethodText("uint", receiver, "m", args)]
       /\ parser.functions[2].body[1].value.name = "C_m"
       /\ Len(parser.functions[2].body[1].value.args) = 3
       /\ parser.functions[2].body[1].value.args[1].k = "AddressOf"
       /\ ~parser.functions[2].body[1].value.signed

-----------------------------------------------------------------------------
(* Properties of the lowering of statements and expressions.               *)

\* the ret instructions of all blocks of the function
retInsts(C) ==
  UNION {{<<b, i>> : i \in {j \in 1..Len(C.blocks[b].insts) :
                                 C.blocks[b].insts[j].op = "ret"}} :
           b \in 1..Len(C.blocks)}

\* the functions of the return programs as parsed, with the return type and
\* the type of the returned value after the conversion of integer widths
ReturnExpected ==
  {[function |-> parseFile(newParser(ReturnText(ret, value), RootFile)).functions[1],
    ret |-> ret.ty,
    none |-> value.text = "",
    converted |-> IF ret.ty.t = "int" /\ value.ty.t = "int" THEN ret.ty ELSE value.ty] :
     ret \in ReturnTypes, value \in ReturnValues}

\* C25: the lowering of `return;` in a function that does not return void,
\* and of `return E;` where the type of E after the conversion of integer
\* widths is not the return type, reports a diagnostic and emits no ret;
\* every other return emits exactly one ret, of the return type.
C25_ReturnChecked ==
  \A e \in ReturnExpected :
    (cgpc # "off" /\ function = e.function /\ bodyIndex > 1) =>
      IF e.none
        THEN IF e.ret # VoidTy
               THEN ctx.err = "Non-void function must return a value"
                      /\ retInsts(ctx) = {}
               ELSE ctx.err = "" /\ Cardinality(retInsts(ctx)) = 1
                      /\ \A r \in retInsts(ctx) :
                           ctx.blocks[r[1]].insts[r[2]].ty = VoidTy
        ELSE IF e.converted # e.ret
               THEN ctx.err = "Return value type does not match function return type"
                      /\ retInsts(ctx) = {}
               ELSE ctx.err = "" /\ Cardinality(retInsts(ctx)) = 1
                      /\ \A r \in retInsts(ctx) :
                           ctx.blocks[r[1]].insts[r[2]].ty = e.ret

\* `return 1;` in a function that returns void was lowered: the diagnostic
\* is reported and the function holds no ret
C25_Witness ==
  /\ cgpc = "body" /\ bodyIndex = 2
  /\ function.name = "r" /\ function.type = PrimitiveTypes["void"]
  /\ function.body = <<Return(IntLiteral(1))>>
  /\ ctx.err = "Return value type does not match function return type"
  /\ retInsts(ctx) = {}

\* the instructions of the entry block after the copies of n parameters
afterParams(C, n) == SubSeq(C.blocks[1].insts, 2 * n + 1, Len(C.blocks[1].insts))

\* the functions of the binary programs as parsed, with the conversion that
\* is expected between the loads of the operands and the operation
BinaryExpected ==
  {[function |-> parseFile(newParser(BinaryText(p[1], p[2], o), RootFile)).functions[1],
    conversion |->
      IF p[2].bits = p[1].bits THEN <<>>
      ELSE <<[op |-> IF p[2].bits > p[1].bits THEN "trunc"
                     ELSE IF p[2].signed THEN "sext" ELSE "zext",
              from |-> IntTy(p[2].bits), to |-> IntTy(p[1].bits)]>>,
    operation |-> [op |-> o.inst, ty |-> IntTy(p[1].bits)]] :
     p \in OperandPairs, o \in BinaryOps}

\* C26: in a binary operation of integers the left operand is not converted
\* and the right operand is converted to the width of the left one, with
\* sext when it is narrower and signed, zext when it is narrower and
\* unsigned, and trunc when it is wider; the operation is made on the width
\* of the left operand.
C26_RightConvertedToLeft ==
  \A e \in BinaryExpected :
    (cgpc # "off" /\ function = e.function /\ bodyIndex > 1) =>
      /\ ctx.err = ""
      /\ SubSeq(afterParams(ctx, 2), 1, 3 + Len(e.conversion)) =
           <<[op |-> "load"], [op |-> "load"]>> \o e.conversion \o <<e.operation>>

\* a + b with a: long and b: char was lowered: b is sign-extended to 64
\* bits and the add is made on 64 bits
C26_Witness ==
  /\ cgpc = "done" /\ ctx.err = ""
  /\ function.name = "bin"
  /\ function.params = <<[name |-> "a", type |-> PrimitiveTypes["long"]],
                         [name |-> "b", type |-> PrimitiveTypes["char"]]>>
  /\ afterParams(ctx, 2) =
       <<[op |-> "load"], [op |-> "load"],
         [op |-> "sext", from |-> IntTy(8), to |-> IntTy(64)],
         [op |-> "add", ty |-> IntTy(64)],
         [op |-> "ret", to |-> <<>>, ty |-> IntTy(64)]>>

\* the bytes one element of a type takes in an array (pointers of 64 bits)
allocSize(ty) ==
  CASE ty.t = "int" -> (ty.bits + 7) \div 8
    [] ty.t = "ptr" -> 8
    [] OTHER -> 0

\* the getelementptr instructions of the entry block
gepInsts(C) ==
  {i \in 1..Len(C.blocks[1].insts) : C.blocks[1].insts[i].op = "gep"}

\* the functions of the pointer programs as parsed, with the type the
\* pointer refers to
PointerExpected ==
  {[function |-> parseFile(newParser(PointerText(target, step), RootFile)).functions[1],
    target |-> target.ty] :
     target \in PointeeTypes, step \in PointerSteps}

\* C27: the address of p + i, of i + p and of p - i is i elements of the
\* type p refers to away from p, as the address of p[i] is: the
\* getelementptr that computes it steps by the size of that type.
C27_ScaledByPointee ==
  \A e \in PointerExpected :
    (cgpc # "off" /\ function = e.function /\ bodyIndex > 1) =>
      /\ ctx.err = ""
      /\ Cardinality(gepInsts(ctx)) = 1
      /\ \A g \in gepInsts(ctx) :
           allocSize(ctx.blocks[1].insts[g].elem) = allocSize(e.target)

\* p + i with p: ptr int was lowered: the getelementptr steps over
\* elements of the pointer type, which take 8 bytes, not the 4 of an int
C27_Witness ==
  /\ cgpc = "done" /\ ctx.err = ""
  /\ function.name = "step"
  /\ function.params[1].type = PointerTypeNode(PrimitiveTypes["int"])
  /\ function.body[1].value.k = "BinaryOperation"
  /\ function.body[1].value.opType = "Add"
  /\ function.body[1].value.L.name = "p"
  /\ \E g \in gepInsts(ctx) : ctx.blocks[1].insts[g].elem = PtrTy

-----------------------------------------------------------------------------
(* Properties of calls.                                                    *)

\* the names of the functions an expression calls
RECURSIVE callsOf(_)
callsOf(e) ==
  CASE e.k = "FunctionCall" ->
         {e.name} \cup UNION {callsOf(e.args[i]) : i \in 1..Len(e.args)}
    [] e.k = "BinaryOperation" -> callsOf(e.L) \cup callsOf(e.R)
    [] e.k \in {"Dref", "AddressOf"} -> callsOf(e.target)
    [] e.k = "StructAccess" -> callsOf(e.structExpr)
    [] e.k = "ArrayAccess" -> callsOf(e.arrayExpr) \cup callsOf(e.indexExpr)
    [] e.k = "PtrIndexAccess" -> callsOf(e.ptrExpr) \cup callsOf(e.indexExpr)
    [] OTHER -> {}

\* the names of the functions a list of statements calls
RECURSIVE callsIn(_)
callsIn(stmts) ==
  UNION {LET st == stmts[i]
         IN CASE st.k = "VariableDeclaration" -> callsOf(st.initialValue)
              [] st.k = "AssignmentStatement" -> callsOf(st.target) \cup callsOf(st.value)
              [] st.k = "Return" -> callsOf(st.value)
              [] st.k = "If" ->
                   callsOf(st.condition) \cup callsIn(st.trueBody) \cup callsIn(st.falseBody)
              [] st.k = "While" -> callsOf(st.condition) \cup callsIn(st.body)
              [] st.k = "ExpressionStatement" -> callsOf(st.expression)
              [] OTHER -> {} :
         i \in 1..Len(stmts)}

\* the functions of a sequence of pieces, in the order they are parsed
RECURSIVE declaredBy(_)
declaredBy(pieces) ==
  IF pieces = <<>> THEN <<>> ELSE pieces[1].funcs \o declaredBy(Tail(pieces))

\* the functions of the list that call a name no earlier function has
undefinedCalls(funcs) ==
  {i \in 1..Len(funcs) :
     \E c \in funcs[i].calls : \A j \in 1..(i - 1) : funcs[j].name # c}

\* what each program of calls is expected to give: the names of the
\* functions in the list, whether every call names an earlier function, and
\* how many top-level items are taken up until the first call that does not
CallExpected ==
  {[text |-> CallText(pieces),
    names |-> [i \in 1..Len(declaredBy(pieces)) |-> declaredBy(pieces)[i].name],
    ok |-> undefinedCalls(declaredBy(pieces)) = {},
    items |-> IF undefinedCalls(declaredBy(pieces)) = {} THEN Len(pieces)
              ELSE CHOOSE k \in 1..Len(pieces) :
                     /\ undefinedCalls(declaredBy(SubSeq(pieces, 1, k))) # {}
                     /\ undefinedCalls(declaredBy(SubSeq(pieces, 1, k - 1))) = {}] :
     pieces \in SeqsUpTo(CallPieces, MaxBody)}

\* C28: every call in the body of a function names a function that stands
\* earlier in the function list: a call of a name that no completely parsed
\* function has, the enclosing function included, ends the parse as
\* undefined, and when a body is lowered every function it calls has been
\* created in the module.
C28_CalleesFirst ==
  /\ mode # "off" =>
       \A i \in 1..Len(parser.functions) :
         \A c \in callsIn(parser.functions[i].body) :
           \E j \in 1..(i - 1) : parser.functions[j].name = c
  /\ (mode # "off" /\ DOMAIN files = {"main"}) =>
       \A e \in CallExpected :
         files.main = e.text =>
           IF e.ok
             THEN /\ parser.err = ""
                  /\ mode = "done" =>
                       [i \in 1..Len(parser.functions) |-> parser.functions[i].name]
                         = e.names
             ELSE /\ mode # "done"
                  /\ itemsParsed < e.items => parser.err = ""
                  /\ itemsParsed >= e.items => parser.err = "Call to undefined function"
  /\ cgpc \in {"body", "end", "done"} =>
       /\ ctx.err # "Unknown function"
       /\ \A c \in callsIn(function.body) : c \in DOMAIN ctx.functions

\* `int f(); int g() { return f(); }` was parsed and g has been lowered: the
\* call of f lies in the body of the second function of the list and f was
\* in the module before
C28_Witness ==
  /\ files = [main |-> "int f(); int g() { return f(); } "]
  /\ mode = "done" /\ cgpc = "done" /\ ctx.err = ""
  /\ function = parser.functions[2]
  /\ callsIn(function.body) = {"f"}
  /\ parser.functions[1].name = "f"
  /\ DOMAIN ctx.functions = {"f", "g"}

\* the getelementptr instructions of the function that address a member
memberGeps(C) ==
  UNION {{C.blocks[b].insts[i] :
            i \in {j \in 1..Len(C.blocks[b].insts) :
                     /\ C.blocks[b].insts[j].op = "gep"
                     /\ "index" \in DOMAIN C.blocks[b].insts[j]}} :
           b \in 1..Len(C.blocks)}

\* C29: the field index of every member access that is lowered is the
\* position of that member in the body of the struct as it was emitted, also
\* when the access was parsed before the class was opened again with more
\* members.
C29_IndexMatchesStructBody ==
  cgpc # "off" =>
    \A g \in memberGeps(ctx) :
      /\ g.struct \in DOMAIN ctx.namedStructs
      /\ g.index + 1 \in 1..Len(ctx.namedStructs[g.struct])
      /\ ctx.namedStructs[g.struct][g.index + 1] = g.member

\* c.b was parsed when C held b alone and lowered after C was opened again
\* with the member a: the body of the struct is a, b and the index is 1
C29_Witness ==
  /\ files = [main |-> StructText(<<"b">>, "b", <<"a">>)]
  /\ cgpc = "done" /\ ctx.err = ""
  /\ function.name = "get"
  /\ function.body[1].value.memberName = "b"
  /\ ctx.namedStructs = [C |-> <<"a", "b">>]
  /\ \E g \in memberGeps(ctx) : g.member = "b" /\ g.index = 1

-----------------------------------------------------------------------------
(* Properties of the scopes of the lowering.                               *)

\* the names of the variables an expression refers to
RECURSIVE refsOf(_)
refsOf(e) ==
  CASE e.k = "VariableReference" -> {e.name}
    [] e.k = "FunctionCall" -> UNION {refsOf(e.args[i]) : i \in 1..Len(e.args)}
    [] e.k = "BinaryOperation" -> refsOf(e.L) \cup refsOf(e.R)
    [] e.k \in {"Dref", "AddressOf"} -> refsOf(e.target)
    [] e.k = "StructAccess" -> refsOf(e.structExpr)
    [] e.k = "ArrayAccess" -> refsOf(e.arrayExpr) \cup refsOf(e.indexExpr)
    [] e.k = "PtrIndexAccess" -> refsOf(e.ptrExpr) \cup refsOf(e.indexExpr)
    [] OTHER -> {}

\* the names of the variables a list of statements refers to
RECURSIVE refsIn(_)
refsIn(stmts) ==
  UNION {LET st == stmts[i]
         IN CASE st.k = "VariableDeclaration" -> refsOf(st.initialValue)
              [] st.k = "AssignmentStatement" -> refsOf(st.target) \cup refsOf(st.value)
              [] st.k = "Return" -> refsOf(st.value)
              [] st.k = "If" ->
                   refsOf(st.condition) \cup refsIn(st.trueBody) \cup refsIn(st.falseBody)
              [] st.k = "While" -> refsOf(st.condition) \cup refsIn(st.body)
              [] st.k = "ExpressionStatement" -> refsOf(st.expression)
              [] OTHER -> {} :
         i \in 1..Len(stmts)}

\* what each program of declarations is expected to give: whether the parser
\* resolves every name the body reads
DeclaredExpected ==
  {[text |-> DeclaredText(d.text, r.text),
    ok |-> d.ok /\ (r.y => d.declares)] :
     d \in Declarations, r \in Reads}

\* C30: for every function the parser accepts, each variable reference that
\* is lowered finds a slot bound to its name: the lowering never ends with
\* "Undefined variable", and the names read by the statements of the body
\* lowered so far are all bound in the frame of the function, also when the
\* variable was declared inside an if arm or a while body; a body cut short
\* after a terminator lowers no later reference.  The parser accepts a body
\* exactly when every name it reads was declared before in the text.
C30_EveryReferenceFindsItsSlot ==
  /\ cgpc # "off" => ctx.err # "Undefined variable"
  /\ (cgpc \in {"body", "end"} /\ ctx.err = "") =>
       /\ Len(ctx.scopes) = 1
       /\ refsIn(SubSeq(function.body, 1, bodyIndex - 1)) \subseteq DOMAIN ctx.scopes[1]
  /\ (mode # "off" /\ DOMAIN files = {"main"}) =>
       \A e \in DeclaredExpected :
         files.main = e.text =>
           IF e.ok THEN parser.err = ""
           ELSE /\ mode # "done"
                /\ parser.err \in {"", "Undefined variable"}

\* `if (c) { int y = 1; } return y;` was parsed and lowered to the end of
\* the body: y was read after the arm that declares it, and the frame of
\* the function binds c and y
C30_Witness ==
  /\ files = [main |-> DeclaredText("if (c) { int y = 1; } ", "y")]
  /\ cgpc = "end" /\ ctx.err = ""
  /\ bodyIndex = 3
  /\ function.body[1].k = "If"
  /\ function.body[1].trueBody[1].k = "VariableDeclaration"
  /\ refsIn(function.body) = {"c", "y"}
  /\ DOMAIN ctx.scopes[1] = {"c", "y"}

=============================================================================
